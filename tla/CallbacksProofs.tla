--------------------------- MODULE CallbacksProofs ----------------------------
(***************************************************************************)
(* The callbacks of gstreamer, phidget and avahi (Callbacks) are called    *)
(* once, with their own data, for any number of foreign threads, listeners *)
(* and events.                                                             *)
(***************************************************************************)
EXTENDS Callbacks, SequenceTheorems, TLAPS

-----------------------------------------------------------------------------
(* The listeners of phidget: the service thread reads the member that the  *)
(* C handler of the event filled in.                                       *)
Matching(f) == \A e \in DOMAIN f : Reads(f[e].type) = f[e].member

LEMMA OrElseMatching ==
  ASSUME NEW f, NEW g, Matching(f), Matching(g)
  PROVE  Matching(OrElse(f, g))
BY DEF Matching, OrElse

LEMMA Tables ==
  ASSUME CallbackConstants, NEW c \in Classes
  PROVE  Matching(Listeners(c))
<1> USE DEF Row, Reads, BglPhidgetHandler, BglErrorHandler, BglChangeHandler, BglSpatialHandler,
        BglServopositionHandler, BglAdvancedServoHandler, BglStepperHandler,
        BglMotorControlHandler, BglEncoderHandler
<1>1. Matching(PhidgetAddEventListener)
  BY DEF PhidgetAddEventListener, Matching
<1>2. Matching(ManagerAddEventListener)
  <2>1. Matching([attach |-> Row("ATTACH", BglPhidgetHandler),
                  detach |-> Row("DETACH", BglPhidgetHandler),
                  error |-> Row("ERROR", BglErrorHandler)])
    BY DEF Matching
  <2> QED BY <1>1, <2>1, OrElseMatching, Zenon DEF ManagerAddEventListener
<1>3. Matching(IfkitAddEventListener)
  <2>1. Matching([inputchange |-> Row("INPUTCHANGE", BglChangeHandler),
                  outputchange |-> Row("OUTPUTCHANGE", BglChangeHandler),
                  sensorchange |-> Row("SENSORCHANGE", BglChangeHandler)])
    BY DEF Matching
  <2> QED BY <1>1, <2>1, OrElseMatching, Zenon DEF IfkitAddEventListener
<1>4. Matching(SpatialAddEventListener)
  <2>1. Matching([spatialdata |-> Row("SPATIALDATA", BglSpatialHandler)])
    BY DEF Matching
  <2> QED BY <1>1, <2>1, OrElseMatching, Zenon DEF SpatialAddEventListener
<1>5. Matching(ServoAddEventListener)
  <2>1. Matching([position |-> Row("SERVOPOSITION", BglServopositionHandler)])
    BY DEF Matching
  <2> QED BY <1>1, <2>1, OrElseMatching, Zenon DEF ServoAddEventListener
<1>6. Matching(AdvancedServoAddEventListener)
  <2>1. Matching([position |-> Row("SERVOPOSITION", BglAdvancedServoHandler),
                  velocity |-> Row("SERVOVELOCITY", BglAdvancedServoHandler),
                  current |-> Row("SERVOCURRENT", BglAdvancedServoHandler)])
    BY DEF Matching
  <2> QED BY <1>1, <2>1, OrElseMatching, Zenon DEF AdvancedServoAddEventListener
<1>7. Matching(StepperAddEventListener)
  <2>1. Matching([input |-> Row("STEPPERINPUT", BglStepperHandler("input")),
                  velocity |-> Row("STEPPERVELOCITY", BglStepperHandler("velocity")),
                  position |-> Row("STEPPERPOSITION", BglStepperHandler("position")),
                  current |-> Row("STEPPERCURRENT", BglStepperHandler("current"))])
    BY DEF Matching
  <2> QED BY <1>1, <2>1, OrElseMatching, Zenon DEF StepperAddEventListener
<1>8. Matching(MotorControlAddEventListener)
  <2>1. Matching([velocity |-> Row("MOTORCONTROLVELOCITY", BglMotorControlHandler),
                  current |-> Row("MOTORCONTROLCURRENT", BglMotorControlHandler)])
    BY DEF Matching
  <2> QED BY <1>1, <2>1, OrElseMatching, Zenon DEF MotorControlAddEventListener
<1>9. Matching(EncoderAddEventListener)
  BY DEF EncoderAddEventListener, Matching
<1> HIDE DEF Row, Reads, BglPhidgetHandler, BglErrorHandler, BglChangeHandler, BglSpatialHandler,
        BglServopositionHandler, BglAdvancedServoHandler, BglStepperHandler,
        BglMotorControlHandler, BglEncoderHandler
<1> QED BY <1>2, <1>3, <1>4, <1>5, <1>6, <1>7, <1>8, <1>9 DEF Listeners, CallbackConstants

-----------------------------------------------------------------------------
(* The numbers of a sequence of callbacks.                                 *)
Once(s) == \A i, j \in DOMAIN s : s[i].n = s[j].n => i = j

LEMMA AppendOne ==
  ASSUME NEW S, NEW s \in Seq(S), NEW e \in S
  PROVE  /\ Append(s, e) \in Seq(S)
         /\ Numbers(Append(s, e)) = Numbers(s) \cup {e.n}
         /\ Once(s) /\ e.n \notin Numbers(s) => Once(Append(s, e))
<1>1. Append(s, e) \in Seq(S) /\ DOMAIN Append(s, e) = 1 .. Len(s) + 1
  OBVIOUS
<1>2. \A i \in 1 .. Len(s) : Append(s, e)[i] = s[i]
  OBVIOUS
<1>3. Append(s, e)[Len(s) + 1] = e
  OBVIOUS
<1>4. DOMAIN s = 1 .. Len(s) /\ Len(s) \in Nat
  OBVIOUS
<1>5. Numbers(Append(s, e)) = Numbers(s) \cup {e.n}
  BY <1>1, <1>2, <1>3, <1>4 DEF Numbers
<1>6. Once(s) /\ e.n \notin Numbers(s) => Once(Append(s, e))
  BY <1>1, <1>2, <1>3, <1>4 DEF Numbers, Once
<1> QED BY <1>1, <1>5, <1>6

LEMMA TakeLast ==
  ASSUME NEW S, NEW s \in Seq(S), s # <<>>, Once(s)
  PROVE  /\ Last(s) \in S /\ Front(s) \in Seq(S)
         /\ Len(Front(s)) <= Len(s)
         /\ Last(s).n \in Numbers(s)
         /\ Numbers(Front(s)) = Numbers(s) \ {Last(s).n}
         /\ Once(Front(s))
<1>1. Len(s) \in Nat \ {0} /\ DOMAIN s = 1 .. Len(s)
  OBVIOUS
<1>2. Front(s) \in Seq(S) /\ DOMAIN Front(s) = 1 .. Len(s) - 1 /\ Len(Front(s)) = Len(s) - 1
  BY <1>1 DEF Front
<1>3. \A i \in 1 .. Len(s) - 1 : Front(s)[i] = s[i]
  BY <1>1 DEF Front
<1>4. Last(s) = s[Len(s)] /\ Last(s) \in S
  BY <1>1 DEF Last
<1>5. Numbers(Front(s)) = Numbers(s) \ {Last(s).n}
  BY <1>1, <1>2, <1>3, <1>4 DEF Numbers, Once
<1>6. Last(s).n \in Numbers(s) /\ Once(Front(s)) /\ Len(Front(s)) <= Len(s)
  BY <1>1, <1>2, <1>3, <1>4 DEF Numbers, Once
<1> QED BY <1>2, <1>4, <1>5, <1>6

LEMMA Split ==
  ASSUME NEW S, NEW s \in Seq(S), NEW k \in 0 .. Len(s), Once(s)
  PROVE  /\ SubSeq(s, 1, k) \in Seq(S)
         /\ Once(SubSeq(s, 1, k))
         /\ Numbers(SubSeq(s, 1, k)) \cup Numbers(SubSeq(s, k + 1, Len(s))) = Numbers(s)
         /\ Numbers(SubSeq(s, 1, k)) \cap Numbers(SubSeq(s, k + 1, Len(s))) = {}
<1>1. Len(s) \in Nat /\ DOMAIN s = 1 .. Len(s) /\ k \in Nat /\ k <= Len(s)
  OBVIOUS
<1> DEFINE a == SubSeq(s, 1, k)
           b == SubSeq(s, k + 1, Len(s))
<1>2. a \in Seq(S) /\ DOMAIN a = 1 .. k /\ \A i \in 1 .. k : a[i] = s[i]
  BY <1>1
<1>3. DOMAIN b = 1 .. Len(s) - k /\ \A i \in 1 .. Len(s) - k : b[i] = s[i + k]
  <2>1. \A i \in k + 1 .. Len(s) : s[i] \in S
    BY <1>1
  <2>2. b \in Seq(S) /\ Len(b) = IF k + 1 <= Len(s) THEN Len(s) - (k + 1) + 1 ELSE 0
    BY <1>1, <2>1, SubSeqProperties
  <2>3. \A i \in 1 .. Len(s) - (k + 1) + 1 : b[i] = s[(k + 1) + i - 1]
    BY <1>1, <2>1, SubSeqProperties
  <2> HIDE DEF b
  <2>4. Len(b) = Len(s) - k
    <3>1. CASE k + 1 <= Len(s)
      BY <1>1, <2>2, <3>1
    <3>2. CASE ~ (k + 1 <= Len(s))
      <4>1. Len(b) = 0
        BY <2>2, <3>2, Zenon
      <4>2. \A m, l \in Nat : l <= m /\ ~ (l + 1 <= m) => m - l = 0
        OBVIOUS
      <4>3. Len(s) - k = 0
        BY <1>1, <3>2, <4>2, Zenon
      <4> QED BY <4>1, <4>3
    <3> QED BY <3>1, <3>2
  <2>5. DOMAIN b = 1 .. Len(b)
    BY <2>2
  <2>6. ASSUME NEW i \in 1 .. Len(s) - k PROVE b[i] = s[i + k]
    <3>1. i \in 1 .. Len(s) - (k + 1) + 1 /\ (k + 1) + i - 1 = i + k
      BY <1>1
    <3> QED BY <2>3, <3>1
  <2> QED BY <2>4, <2>5, <2>6
<1> HIDE DEF a, b
<1>4. Once(a)
  BY <1>1, <1>2 DEF Once
<1>5. Numbers(a) \subseteq Numbers(s) /\ Numbers(b) \subseteq Numbers(s)
  <2>1. \A i \in 1 .. k : i \in DOMAIN s
    BY <1>1
  <2>2. \A i \in 1 .. Len(s) - k : i + k \in DOMAIN s
    BY <1>1
  <2> QED BY <1>2, <1>3, <2>1, <2>2 DEF Numbers
<1>6. ASSUME NEW i \in DOMAIN s PROVE s[i].n \in Numbers(a) \cup Numbers(b)
  <2>1. CASE i <= k
    BY <1>1, <1>2, <2>1 DEF Numbers
  <2>2. CASE i > k
    <3>1. i - k \in 1 .. Len(s) - k /\ b[i - k] = s[i]
      BY <1>1, <1>3, <2>2
    <3> QED BY <1>3, <3>1 DEF Numbers
  <2> QED BY <1>1, <2>1, <2>2
<1>7. Numbers(s) \subseteq Numbers(a) \cup Numbers(b)
  BY <1>6 DEF Numbers
<1>8. Numbers(a) \cap Numbers(b) = {}
  <2> SUFFICES ASSUME NEW i \in DOMAIN a, NEW j \in DOMAIN b, a[i].n = b[j].n PROVE FALSE
    BY DEF Numbers
  <2>1. i \in DOMAIN s /\ j + k \in DOMAIN s /\ i # j + k
    BY <1>1, <1>2, <1>3
  <2>2. s[i].n = s[j + k].n
    BY <1>2, <1>3
  <2> QED BY <2>1, <2>2 DEF Once
<1> QED BY <1>2, <1>4, <1>5, <1>7, <1>8 DEF a, b

(* The six places of an event, one by one.                                 *)
Partition(A, B, C, D, E, F, all) ==
  /\ A \cup B \cup C \cup D \cup E \cup F = all
  /\ A \cap B = {} /\ A \cap C = {} /\ A \cap D = {} /\ A \cap E = {} /\ A \cap F = {}
  /\ B \cap C = {} /\ B \cap D = {} /\ B \cap E = {} /\ B \cap F = {}
  /\ C \cap D = {} /\ C \cap E = {} /\ C \cap F = {}
  /\ D \cap E = {} /\ D \cap F = {} /\ E \cap F = {}

LEMMA SixPlaces ==
  ASSUME NEW A, NEW B, NEW C, NEW D, NEW E, NEW F, NEW all, Partition(A, B, C, D, E, F, all)
  PROVE  LET P == <<A, B, C, D, E, F>> IN
         /\ UNION Range(P) = all
         /\ \A i, j \in DOMAIN P : i # j => P[i] \cap P[j] = {}
<1> DEFINE P == <<A, B, C, D, E, F>>
<1>1. DOMAIN P = {1, 2, 3, 4, 5, 6}
  OBVIOUS
<1>2. P[1] = A /\ P[2] = B /\ P[3] = C /\ P[4] = D /\ P[5] = E /\ P[6] = F
  OBVIOUS
<1> HIDE DEF P
<1>3. Range(P) = {A, B, C, D, E, F}
  BY <1>1, <1>2 DEF Range
<1>4. UNION Range(P) = all
  BY <1>3 DEF Partition
<1>5. \A i, j \in DOMAIN P : i # j => P[i] \cap P[j] = {}
  BY <1>1, <1>2 DEF Partition
<1> QED BY <1>4, <1>5 DEF P

-----------------------------------------------------------------------------
(* The inductive invariant.  What a callback may hold: a listener with the *)
(* member that the service thread will read for it; up to four values; the *)
(* arguments of an avahi callback.                                         *)
TypesOf(c) == {Listeners(c)[e].type : e \in DOMAIN Listeners(c)}

Data ==
  IF lib = "phidget" THEN {[handler |-> h, member |-> Reads(handlers[h])] : h \in DOMAIN handlers}
  ELSE IF lib = "gst" THEN [arity : 0 .. 4]
  ELSE [kind : Kinds, arity : Nat] \cup [kind : {"timeout"}, arity : {0}, proc : Timeouts]
Packet == [n : Nat \ {0}, data : Data]

(* What the procedures were told.                                          *)
Told == IF lib = "phidget" THEN {Reads(handlers[h]) : h \in DOMAIN handlers} ELSE Nat
Answer == {[n |-> k, sent |-> x, heard |-> x] : k \in Nat \ {0}, x \in Told}

Phases == {"new", "waiting", "woken", "unlocked", "indexed", "invoking", "calling", "dead"}

(* The program, and the listeners that it has added.                       *)
HandlersInv ==
  /\ object \in Kinds \cup {"timeout"}
  /\ class \in Classes
  /\ handlers \in Seq(TypesOf(class))
  /\ \A e \in DOMAIN slot :
       /\ e \in DOMAIN Listeners(class)
       /\ slot[e] \in DOMAIN handlers
       /\ handlers[slot[e]] = Listeners(class)[e].type

Types ==
  /\ length \in Nat /\ events \in Nat
  /\ callbacks \in Seq(Packet) /\ Len(callbacks) <= length
  /\ service \in [at : Phases, index : Nat, batch : Seq(Packet), call : {Idle} \cup Packet]
  /\ emitter \in [Foreign -> {Idle} \cup Packet]
  /\ got \in Seq(Answer)

(* What the service thread holds in each of its phases.                    *)
ServiceInv ==
  /\ service.at = "calling" <=> service.call # Idle
  /\ service.batch # <<>> => lib = "avahi" /\ service.at \in {"invoking", "calling"}
  /\ service.at = "indexed" => lib = "avahi" /\ service.index <= Len(callbacks)

NumbersInv ==
  /\ Once(callbacks) /\ Once(service.batch) /\ Once(got)
  /\ \A f, g \in Foreign : emitter[f].n = emitter[g].n /\ emitter[f].n # 0 => f = g
  /\ Partition(Pending, Numbers(callbacks), Numbers(service.batch), {service.call.n} \ {0},
               Numbers(got), dropped, 1 .. events)

CallbacksInv == HandlersInv /\ Types /\ ServiceInv /\ NumbersInv

LEMMA InvExact ==
  ASSUME CallbacksInv
  PROVE  CallbacksExact
<1>1. Len(callbacks) <= length
  BY DEF CallbacksInv, Types
<1>2. \A s \in {callbacks, service.batch, got} : Once(s)
  BY DEF CallbacksInv, NumbersInv
<1>3. /\ UNION Range(Places) = 1 .. events
      /\ \A i, j \in DOMAIN Places : i # j => Places[i] \cap Places[j] = {}
  BY SixPlaces DEF CallbacksInv, NumbersInv, Places
<1>4. ASSUME NEW i \in DOMAIN got PROVE got[i].heard = got[i].sent
  <2>1. got[i] \in Answer
    BY DEF CallbacksInv, Types
  <2> QED BY <2>1 DEF Answer
<1> QED BY <1>1, <1>2, <1>3, <1>4 DEF CallbacksExact, Once

LEMMA Initially ==
  ASSUME CallbackConstants, CallbacksInit
  PROVE  CallbacksInv
<1>1. HandlersInv
  BY DEF CallbacksInit, InitPhidget, InitAvahi, HandlersInv
<1>2. Types
  BY DEF CallbacksInit, InitQueue, Types, CallbackConstants, Phases, Idle
<1>3. ServiceInv
  BY DEF CallbacksInit, InitQueue, ServiceInv
<1>4. NumbersInv
  BY DEF CallbacksInit, InitQueue, NumbersInv, Once, Numbers, Partition, Pending, Idle
<1> QED BY <1>1, <1>2, <1>3, <1>4 DEF CallbacksInv

-----------------------------------------------------------------------------
(* The steps of the queue, while no listener is added; the program has the *)
(* same objects from the beginning.                                        *)
Listening == <<lib, object, class, handlers, slot>>

LEMMA SameData ==
  ASSUME UNCHANGED Listening
  PROVE  Packet' = Packet /\ Data' = Data /\ Answer' = Answer
BY DEF Listening, Packet, Data, Answer, Told

LEMMA SameHandlers ==
  ASSUME HandlersInv, UNCHANGED Listening
  PROVE  HandlersInv'
BY DEF Listening, HandlersInv, TypesOf

(* The number of an emitter.                                               *)
LEMMA EmitterNumber ==
  ASSUME Types, NEW f \in Foreign
  PROVE  /\ emitter[f].n = 0 <=> emitter[f] = Idle
         /\ emitter[f] # Idle => emitter[f] \in Packet
         /\ emitter[f].n \in Nat
BY DEF Types, Idle, Packet

LEMMA CallNumber ==
  ASSUME Types
  PROVE  /\ service.call.n = 0 <=> service.call = Idle
         /\ service.call # Idle => service.call \in Packet
         /\ service.call.n \in Nat
BY DEF Types, Idle, Packet

LEMMA EmitStep ==
  ASSUME CallbacksInv, UNCHANGED Listening, NEW f \in Foreign, NEW cb \in Data, Emit(f, cb)
  PROVE  CallbacksInv'
<1>1. Packet' = Packet /\ Answer' = Answer /\ HandlersInv'
  BY SameData, SameHandlers DEF CallbacksInv
<1> DEFINE new == [n |-> events + 1, data |-> cb]
<1>2. new \in Packet /\ new.n = events + 1 /\ events + 1 \in Nat \ {0}
  <2>1. events + 1 \in Nat \ {0}
    BY DEF CallbacksInv, Types
  <2> QED BY <2>1 DEF Packet
<1> HIDE DEF new
<1>3. emitter' = [emitter EXCEPT ![f] = new] /\ emitter[f] = Idle /\ events' = events + 1
  BY DEF Emit, new
<1>4. UNCHANGED <<lib, mutex, callbacks, length, service, got, dropped>>
  BY DEF Emit
<1>5. Types'
  BY <1>1, <1>2, <1>3, <1>4 DEF CallbacksInv, Types
<1>6. ServiceInv'
  BY <1>4 DEF CallbacksInv, ServiceInv
<1>7. emitter[f].n = 0 /\ \A g \in Foreign : emitter'[g] = IF g = f THEN new ELSE emitter[g]
  BY <1>3 DEF CallbacksInv, Types, Idle
<1>8. Pending' = Pending \cup {events + 1}
  <2>1. Pending' = {emitter'[g].n : g \in Foreign} \ {0}
    BY DEF Pending
  <2>2. \A g \in Foreign : emitter'[g].n = IF g = f THEN events + 1 ELSE emitter[g].n
    BY <1>2, <1>7
  <2> QED BY <1>2, <1>7, <2>1, <2>2 DEF Pending
<1>9. 1 .. events' = (1 .. events) \cup {events + 1} /\ events + 1 \notin 1 .. events
  BY <1>3 DEF CallbacksInv, Types
<1>10. Partition(Pending, Numbers(callbacks), Numbers(service.batch), {service.call.n} \ {0},
               Numbers(got), dropped, 1 .. events)'
  BY <1>4, <1>8, <1>9 DEF CallbacksInv, NumbersInv, Partition
<1>11. \A g, h \in Foreign : emitter'[g].n = emitter'[h].n /\ emitter'[g].n # 0 => g = h
  <2>1. \A g \in Foreign : emitter[g].n # events + 1
    <3> SUFFICES ASSUME NEW g \in Foreign, emitter[g].n = events + 1 PROVE FALSE
      OBVIOUS
    <3>1. events + 1 \in Pending
      BY <1>2 DEF Pending, CallbacksInv, Types
    <3> QED BY <1>9, <3>1 DEF CallbacksInv, NumbersInv, Partition
  <2> QED BY <1>2, <1>7, <2>1 DEF CallbacksInv, NumbersInv
<1>12. NumbersInv'
  BY <1>4, <1>10, <1>11 DEF CallbacksInv, NumbersInv, Once
<1> QED BY <1>1, <1>5, <1>6, <1>12 DEF CallbacksInv

(* A registration: the array has room, and the service thread may be       *)
(* awoken.                                                                 *)
LEMMA StoredStep ==
  ASSUME CallbackConstants, CallbacksInv, UNCHANGED Listening, NEW cb \in Packet, Stored(cb),
         cb.n \notin Numbers(callbacks)
  PROVE  /\ length' \in Nat /\ callbacks' \in Seq(Packet) /\ Len(callbacks') <= length'
         /\ Once(callbacks)' /\ Numbers(callbacks)' = Numbers(callbacks) \cup {cb.n}
         /\ service' \in [at : Phases, index : Nat, batch : Seq(Packet), call : {Idle} \cup Packet]
         /\ service'.batch = service.batch /\ service'.call = service.call
         /\ ServiceInv'
<1>1. callbacks' = Append(callbacks, cb) /\ length' = Enlarged(Len(callbacks)) /\ service' = Signalled
  BY DEF Stored
<1>2. callbacks \in Seq(Packet) /\ length \in Nat /\ Len(callbacks) <= length /\ Len(callbacks) \in Nat
  BY DEF CallbacksInv, Types
<1>3. callbacks' \in Seq(Packet) /\ Numbers(callbacks') = Numbers(callbacks) \cup {cb.n} /\ Once(callbacks')
  BY <1>1, <1>2, AppendOne DEF CallbacksInv, NumbersInv
<1>4. Len(callbacks') = Len(callbacks) + 1
  BY <1>1, <1>2
<1>5. length' \in Nat /\ Len(callbacks') <= length'
  BY <1>1, <1>2, <1>4 DEF Enlarged, CallbackConstants
<1>6. service \in [at : Phases, index : Nat, batch : Seq(Packet), call : {Idle} \cup Packet]
  BY DEF CallbacksInv, Types
<1>7. CASE service.at = "waiting"
  <2>1. service' = [service EXCEPT !.at = "woken"]
    BY <1>1, <1>7 DEF Signalled
  <2>2. /\ service' \in [at : Phases, index : Nat, batch : Seq(Packet), call : {Idle} \cup Packet]
        /\ service'.at = "woken" /\ service'.batch = service.batch /\ service'.call = service.call
    BY <1>6, <2>1 DEF Phases
  <2>3. ServiceInv'
    BY <1>7, <2>2 DEF CallbacksInv, ServiceInv
  <2> QED BY <1>3, <1>5, <2>2, <2>3
<1>8. CASE service.at # "waiting"
  <2>1. service' = service
    BY <1>1, <1>8 DEF Signalled
  <2>2. ServiceInv'
    BY <1>2, <1>4, <1>6, <2>1 DEF CallbacksInv, ServiceInv, Listening
  <2> QED BY <1>3, <1>5, <1>6, <2>1, <2>2
<1> QED BY <1>7, <1>8

LEMMA RegisterStep ==
  ASSUME CallbackConstants, CallbacksInv, UNCHANGED Listening, NEW f \in Foreign, Register(f)
  PROVE  CallbacksInv'
<1>1. Packet' = Packet /\ Answer' = Answer /\ HandlersInv'
  BY SameData, SameHandlers DEF CallbacksInv
<1>2. Types
  BY DEF CallbacksInv
<1> DEFINE k == emitter[f].n
<1>3. emitter[f] \in Packet /\ k # 0 /\ k \in Nat /\ Stored(emitter[f])
  BY <1>2, EmitterNumber DEF Register
<1>4. k \in Pending
  BY <1>3 DEF Pending
<1>5. k \notin Numbers(callbacks)
  BY <1>4 DEF CallbacksInv, NumbersInv, Partition
<1>6. /\ length' \in Nat /\ callbacks' \in Seq(Packet) /\ Len(callbacks') <= length'
      /\ Once(callbacks)' /\ Numbers(callbacks)' = Numbers(callbacks) \cup {k}
      /\ service' \in [at : Phases, index : Nat, batch : Seq(Packet), call : {Idle} \cup Packet]
      /\ service'.batch = service.batch /\ service'.call = service.call
      /\ ServiceInv'
  BY <1>3, <1>5, StoredStep
<1>7. emitter' = [emitter EXCEPT ![f] = Idle] /\ UNCHANGED <<lib, mutex, events, got, dropped>>
  BY DEF Register
<1>8. Types'
  BY <1>1, <1>6, <1>7 DEF CallbacksInv, Types
<1>9. \A g \in Foreign : emitter'[g].n = IF g = f THEN 0 ELSE emitter[g].n
  BY <1>2, <1>7 DEF Types, Idle
<1>10. Pending' = Pending \ {k}
  <2>1. Pending' = {emitter'[g].n : g \in Foreign} \ {0}
    BY DEF Pending
  <2>2. \A g \in Foreign : g # f => emitter[g].n # k
    BY <1>3 DEF CallbacksInv, NumbersInv
  <2> HIDE DEF k
  <2> QED BY <1>3, <1>9, <2>1, <2>2 DEF Pending, k
<1> HIDE DEF k
<1>11. Partition(Pending, Numbers(callbacks), Numbers(service.batch), {service.call.n} \ {0},
               Numbers(got), dropped, 1 .. events)'
  BY <1>4, <1>6, <1>7, <1>10 DEF CallbacksInv, NumbersInv, Partition
<1>12. \A g, h \in Foreign : emitter'[g].n = emitter'[h].n /\ emitter'[g].n # 0 => g = h
  BY <1>9 DEF CallbacksInv, NumbersInv
<1>13. NumbersInv'
  BY <1>6, <1>7, <1>11, <1>12 DEF CallbacksInv, NumbersInv
<1> QED BY <1>1, <1>6, <1>8, <1>13 DEF CallbacksInv

LEMMA NestedStep ==
  ASSUME CallbackConstants, CallbacksInv, UNCHANGED Listening, NEW cb \in Data, Nested(cb)
  PROVE  CallbacksInv'
<1>1. Packet' = Packet /\ Answer' = Answer /\ HandlersInv'
  BY SameData, SameHandlers DEF CallbacksInv
<1> DEFINE new == [n |-> events + 1, data |-> cb]
<1>2. new \in Packet /\ new.n = events + 1 /\ events + 1 \in Nat \ {0}
  <2>1. events + 1 \in Nat \ {0}
    BY DEF CallbacksInv, Types
  <2> QED BY <2>1 DEF Packet
<1>3. Stored(new) /\ events' = events + 1 /\ UNCHANGED <<lib, mutex, emitter, got, dropped>>
  BY DEF Nested
<1> HIDE DEF new
<1>4. 1 .. events' = (1 .. events) \cup {events + 1} /\ events + 1 \notin 1 .. events
  BY <1>3 DEF CallbacksInv, Types
<1>5. new.n \notin Numbers(callbacks)
  BY <1>2, <1>4 DEF CallbacksInv, NumbersInv, Partition
<1>6. /\ length' \in Nat /\ callbacks' \in Seq(Packet) /\ Len(callbacks') <= length'
      /\ Once(callbacks)' /\ Numbers(callbacks)' = Numbers(callbacks) \cup {new.n}
      /\ service' \in [at : Phases, index : Nat, batch : Seq(Packet), call : {Idle} \cup Packet]
      /\ service'.batch = service.batch /\ service'.call = service.call
      /\ ServiceInv'
  BY <1>2, <1>3, <1>5, StoredStep
<1>7. Types'
  BY <1>1, <1>2, <1>3, <1>6 DEF CallbacksInv, Types
<1>8. Partition(Pending, Numbers(callbacks), Numbers(service.batch), {service.call.n} \ {0},
               Numbers(got), dropped, 1 .. events)'
  <2>1. Pending' = Pending
    BY <1>3 DEF Pending
  <2> QED BY <1>2, <1>3, <1>4, <1>6, <2>1 DEF CallbacksInv, NumbersInv, Partition
<1>9. NumbersInv'
  BY <1>3, <1>6, <1>8 DEF CallbacksInv, NumbersInv
<1> QED BY <1>1, <1>6, <1>7, <1>9 DEF CallbacksInv

(* The service thread goes on to another phase, with nothing in its hands. *)
LEMMA PhaseStep ==
  ASSUME CallbacksInv, UNCHANGED Listening, NEW p \in Phases \ {"calling", "indexed"},
         service.at # "calling", service.batch = <<>>, service' = [service EXCEPT !.at = p],
         UNCHANGED <<callbacks, length, emitter, events, got, dropped>>
  PROVE  CallbacksInv'
<1>1. Packet' = Packet /\ Answer' = Answer /\ HandlersInv'
  BY SameData, SameHandlers DEF CallbacksInv
<1>2. /\ service \in [at : Phases, index : Nat, batch : Seq(Packet), call : {Idle} \cup Packet]
      /\ callbacks \in Seq(Packet) /\ lib' = lib
  BY DEF CallbacksInv, Types, Listening
<1>3. /\ service' \in [at : Phases, index : Nat, batch : Seq(Packet), call : {Idle} \cup Packet]
      /\ service'.at = p /\ service'.batch = service.batch /\ service'.call = service.call
  BY <1>2
<1>4. Types'
  BY <1>1, <1>3 DEF CallbacksInv, Types
<1>5. ServiceInv'
  BY <1>3 DEF CallbacksInv, ServiceInv
<1>6. NumbersInv'
  <2>1. Pending' = Pending
    BY DEF Pending
  <2> QED BY <1>3, <2>1 DEF CallbacksInv, NumbersInv
<1> QED BY <1>1, <1>4, <1>5, <1>6 DEF CallbacksInv

LEMMA InvokeReadStep ==
  ASSUME CallbacksInv, UNCHANGED Listening, InvokeRead
  PROVE  CallbacksInv'
<1>1. Packet' = Packet /\ Answer' = Answer /\ HandlersInv'
  BY SameData, SameHandlers DEF CallbacksInv
<1>2. /\ service \in [at : Phases, index : Nat, batch : Seq(Packet), call : {Idle} \cup Packet]
      /\ callbacks \in Seq(Packet) /\ lib' = lib
  BY DEF CallbacksInv, Types, Listening
<1>3. /\ service' = [service EXCEPT !.at = "indexed", !.index = Len(callbacks)]
      /\ service.at = "unlocked" /\ lib = "avahi"
      /\ UNCHANGED <<callbacks, length, emitter, events, got, dropped>>
  BY DEF InvokeRead
<1>4. Len(callbacks) \in Nat
  BY <1>2
<1>5. /\ service' \in [at : Phases, index : Nat, batch : Seq(Packet), call : {Idle} \cup Packet]
      /\ service'.at = "indexed" /\ service'.index = Len(callbacks)
      /\ service'.batch = service.batch /\ service'.call = service.call
  BY <1>2, <1>3, <1>4 DEF Phases
<1>6. Types'
  BY <1>1, <1>3, <1>5 DEF CallbacksInv, Types
<1>7. ServiceInv'
  BY <1>2, <1>3, <1>4, <1>5 DEF CallbacksInv, ServiceInv
<1>8. NumbersInv'
  <2>1. Pending' = Pending
    BY <1>3 DEF Pending
  <2> QED BY <1>3, <1>5, <2>1 DEF CallbacksInv, NumbersInv
<1> QED BY <1>1, <1>6, <1>7, <1>8 DEF CallbacksInv

LEMMA InvokeLastStep ==
  ASSUME CallbacksInv, UNCHANGED Listening, InvokeLast
  PROVE  CallbacksInv'
<1>1. Packet' = Packet /\ Answer' = Answer /\ HandlersInv'
  BY SameData, SameHandlers DEF CallbacksInv
<1>2. /\ service \in [at : Phases, index : Nat, batch : Seq(Packet), call : {Idle} \cup Packet]
      /\ callbacks \in Seq(Packet) /\ lib' = lib
  BY DEF CallbacksInv, Types, Listening
<1> DEFINE cb == Last(callbacks)
<1>3. /\ service' = [service EXCEPT !.at = "calling", !.call = cb]
      /\ callbacks' = Front(callbacks) /\ callbacks # <<>>
      /\ service.at = "invoking" /\ lib # "avahi"
      /\ UNCHANGED <<length, emitter, events, got, dropped>>
  BY DEF InvokeLast, Calling
<1>4. /\ cb \in Packet /\ callbacks' \in Seq(Packet)
      /\ Len(callbacks') <= Len(callbacks)
      /\ cb.n \in Numbers(callbacks)
      /\ Numbers(callbacks)' = Numbers(callbacks) \ {cb.n}
      /\ Once(callbacks)'
  BY <1>2, <1>3, TakeLast DEF CallbacksInv, NumbersInv
<1> HIDE DEF cb
<1>5. cb.n \in Nat \ {0} /\ cb # Idle
  BY <1>4 DEF Packet, Idle
<1>6. /\ service' \in [at : Phases, index : Nat, batch : Seq(Packet), call : {Idle} \cup Packet]
      /\ service'.at = "calling" /\ service'.batch = service.batch /\ service'.call = cb
  BY <1>2, <1>3, <1>4 DEF Phases
<1>7. Len(callbacks') <= length
  BY <1>2, <1>4 DEF CallbacksInv, Types
<1>8. Types'
  BY <1>1, <1>3, <1>4, <1>6, <1>7 DEF CallbacksInv, Types
<1>9. ServiceInv'
  BY <1>2, <1>3, <1>5, <1>6 DEF CallbacksInv, ServiceInv
<1>10. NumbersInv'
  <2>1. Pending' = Pending
    BY <1>3 DEF Pending
  <2>2. service.call.n = 0
    BY <1>3 DEF CallbacksInv, ServiceInv, Idle
  <2>3. Partition(Pending, Numbers(callbacks), Numbers(service.batch), {service.call.n} \ {0},
               Numbers(got), dropped, 1 .. events)'
    BY <1>3, <1>4, <1>5, <1>6, <2>1, <2>2 DEF CallbacksInv, NumbersInv, Partition
  <2> QED BY <1>3, <1>4, <1>6, <2>3 DEF CallbacksInv, NumbersInv
<1> QED BY <1>1, <1>8, <1>9, <1>10 DEF CallbacksInv

(* avahi copies the array up to the index that it read before the lock.    *)
LEMMA InvokeCopyStep ==
  ASSUME CallbacksInv, UNCHANGED Listening, InvokeCopy
  PROVE  CallbacksInv'
<1>1. Packet' = Packet /\ Answer' = Answer /\ HandlersInv'
  BY SameData, SameHandlers DEF CallbacksInv
<1>2. /\ service \in [at : Phases, index : Nat, batch : Seq(Packet), call : {Idle} \cup Packet]
      /\ callbacks \in Seq(Packet) /\ lib' = lib
  BY DEF CallbacksInv, Types, Listening
<1> DEFINE batch == SubSeq(callbacks, 1, service.index)
           rest  == SubSeq(callbacks, service.index + 1, Len(callbacks))
<1>3. /\ service' = [service EXCEPT !.at = "invoking", !.batch = batch]
      /\ callbacks' = <<>> /\ dropped' = dropped \cup Numbers(rest)
      /\ service.at = "indexed" /\ lib = "avahi"
      /\ UNCHANGED <<length, emitter, events, got>>
  BY DEF InvokeCopy
<1>4. service.index \in 0 .. Len(callbacks)
  BY <1>2, <1>3 DEF CallbacksInv, ServiceInv
<1>5. /\ batch \in Seq(Packet) /\ Once(batch)
      /\ Numbers(batch) \cup Numbers(rest) = Numbers(callbacks)
      /\ Numbers(batch) \cap Numbers(rest) = {}
  BY <1>2, <1>4, Split DEF CallbacksInv, NumbersInv
<1> HIDE DEF batch, rest
<1>6. /\ service' \in [at : Phases, index : Nat, batch : Seq(Packet), call : {Idle} \cup Packet]
      /\ service'.at = "invoking" /\ service'.batch = batch /\ service'.call = service.call
  BY <1>2, <1>3, <1>5 DEF Phases
<1>7. callbacks' \in Seq(Packet) /\ Len(callbacks') = 0 /\ Once(callbacks)' /\ Numbers(callbacks)' = {}
  BY <1>3 DEF Once, Numbers
<1>8. Types'
  BY <1>1, <1>3, <1>6, <1>7 DEF CallbacksInv, Types
<1>9. ServiceInv'
  BY <1>2, <1>3, <1>6 DEF CallbacksInv, ServiceInv
<1>10. NumbersInv'
  <2>1. Pending' = Pending
    BY <1>3 DEF Pending
  <2>2. Numbers(service.batch) = {}
    BY <1>3 DEF CallbacksInv, ServiceInv, Numbers
  <2>3. Partition(Pending, Numbers(callbacks), Numbers(service.batch), {service.call.n} \ {0},
               Numbers(got), dropped, 1 .. events)'
    BY <1>3, <1>5, <1>6, <1>7, <2>1, <2>2 DEF CallbacksInv, NumbersInv, Partition
  <2> QED BY <1>3, <1>5, <1>6, <1>7, <2>3 DEF CallbacksInv, NumbersInv
<1> QED BY <1>1, <1>8, <1>9, <1>10 DEF CallbacksInv

LEMMA ApplyLastStep ==
  ASSUME CallbacksInv, UNCHANGED Listening, ApplyLast
  PROVE  CallbacksInv'
<1>1. Packet' = Packet /\ Answer' = Answer /\ HandlersInv'
  BY SameData, SameHandlers DEF CallbacksInv
<1>2. /\ service \in [at : Phases, index : Nat, batch : Seq(Packet), call : {Idle} \cup Packet]
      /\ callbacks \in Seq(Packet) /\ lib' = lib
  BY DEF CallbacksInv, Types, Listening
<1> DEFINE cb == Last(service.batch)
           front == Front(service.batch)
<1>3. /\ service' = [[service EXCEPT !.at = "calling", !.call = cb] EXCEPT !.batch = Front(@)]
      /\ service.batch # <<>>
      /\ service.at = "invoking" /\ lib = "avahi"
      /\ UNCHANGED <<callbacks, length, emitter, events, got, dropped>>
  BY DEF ApplyLast, Calling
<1>4. /\ cb \in Packet /\ front \in Seq(Packet)
      /\ cb.n \in Numbers(service.batch)
      /\ Numbers(front) = Numbers(service.batch) \ {cb.n}
      /\ Once(front)
  BY <1>2, <1>3, TakeLast DEF CallbacksInv, NumbersInv
<1>5. /\ service'.at = "calling" /\ service'.batch = front /\ service'.call = cb
      /\ service' \in [at : Phases, index : Nat, batch : Seq(Packet), call : {Idle} \cup Packet]
  BY <1>2, <1>3, <1>4 DEF Phases
<1> HIDE DEF cb, front
<1>6. cb.n \in Nat \ {0} /\ cb # Idle
  BY <1>4 DEF Packet, Idle
<1>7. Types'
  BY <1>1, <1>3, <1>5 DEF CallbacksInv, Types
<1>8. ServiceInv'
  BY <1>2, <1>3, <1>5, <1>6 DEF CallbacksInv, ServiceInv
<1>9. NumbersInv'
  <2>1. Pending' = Pending
    BY <1>3 DEF Pending
  <2>2. service.call.n = 0
    BY <1>3 DEF CallbacksInv, ServiceInv, Idle
  <2>3. Partition(Pending, Numbers(callbacks), Numbers(service.batch), {service.call.n} \ {0},
               Numbers(got), dropped, 1 .. events)'
    BY <1>3, <1>4, <1>5, <1>6, <2>1, <2>2 DEF CallbacksInv, NumbersInv, Partition
  <2> QED BY <1>3, <1>4, <1>5, <2>3 DEF CallbacksInv, NumbersInv
<1> QED BY <1>1, <1>7, <1>8, <1>9 DEF CallbacksInv

LEMMA ReturnStep ==
  ASSUME CallbacksInv, UNCHANGED Listening, NEW heard \in Answer, Return(heard),
         heard.n = service.call.n
  PROVE  CallbacksInv'
<1>1. Packet' = Packet /\ Answer' = Answer /\ HandlersInv'
  BY SameData, SameHandlers DEF CallbacksInv
<1>2. /\ service \in [at : Phases, index : Nat, batch : Seq(Packet), call : {Idle} \cup Packet]
      /\ callbacks \in Seq(Packet) /\ lib' = lib
  BY DEF CallbacksInv, Types, Listening
<1>3. /\ service' = [service EXCEPT !.at = "invoking", !.call = Idle]
      /\ got' = Append(got, heard) /\ service.at = "calling"
      /\ UNCHANGED <<callbacks, length, emitter, events, dropped>>
  BY DEF Return
<1>4. /\ service' \in [at : Phases, index : Nat, batch : Seq(Packet), call : {Idle} \cup Packet]
      /\ service'.at = "invoking" /\ service'.batch = service.batch /\ service'.call = Idle
      /\ service'.call.n = 0
  BY <1>2, <1>3 DEF Phases, Idle
<1>5. heard.n # 0
  BY <1>3, CallNumber DEF CallbacksInv, ServiceInv
<1>6. heard.n \notin Numbers(got)
  BY <1>5 DEF CallbacksInv, NumbersInv, Partition
<1>7. got' \in Seq(Answer) /\ Numbers(got)' = Numbers(got) \cup {heard.n} /\ Once(got)'
  BY <1>3, <1>6, AppendOne DEF CallbacksInv, Types, NumbersInv
<1>8. Types'
  BY <1>1, <1>3, <1>4, <1>7 DEF CallbacksInv, Types
<1>9. ServiceInv'
  BY <1>2, <1>3, <1>4 DEF CallbacksInv, ServiceInv
<1>10. NumbersInv'
  <2>1. Pending' = Pending
    BY <1>3 DEF Pending
  <2>2. Partition(Pending, Numbers(callbacks), Numbers(service.batch), {service.call.n} \ {0},
               Numbers(got), dropped, 1 .. events)'
    BY <1>3, <1>4, <1>5, <1>7, <2>1 DEF CallbacksInv, NumbersInv, Partition
  <2> QED BY <1>3, <1>4, <1>7, <2>2 DEF CallbacksInv, NumbersInv
<1> QED BY <1>1, <1>8, <1>9, <1>10 DEF CallbacksInv

LEMMA RaiseStep ==
  ASSUME CallbacksInv, UNCHANGED Listening, Raise
  PROVE  CallbacksInv'
<1>1. Packet' = Packet /\ Answer' = Answer /\ HandlersInv'
  BY SameData, SameHandlers DEF CallbacksInv
<1>2. /\ service \in [at : Phases, index : Nat, batch : Seq(Packet), call : {Idle} \cup Packet]
      /\ callbacks \in Seq(Packet) /\ lib' = lib
  BY DEF CallbacksInv, Types, Listening
<1>3. /\ service' = [service EXCEPT !.at = "dead", !.batch = <<>>, !.call = Idle]
      /\ dropped' = dropped \cup {service.call.n} \cup Numbers(service.batch)
      /\ service.at = "calling"
      /\ UNCHANGED <<callbacks, length, emitter, events, got>>
  BY DEF Raise
<1>4. /\ service' \in [at : Phases, index : Nat, batch : Seq(Packet), call : {Idle} \cup Packet]
      /\ service'.at = "dead" /\ service'.batch = <<>> /\ service'.call = Idle
      /\ service'.call.n = 0
  <2>1. service'.at = "dead" /\ service'.batch = <<>> /\ service'.call = Idle
    BY <1>2, <1>3
  <2>2. <<>> \in Seq(Packet) /\ "dead" \in Phases
    BY DEF Phases
  <2>3. service' \in [at : Phases, index : Nat, batch : Seq(Packet), call : {Idle} \cup Packet]
    BY <1>2, <1>3, <2>2
  <2> QED BY <2>1, <2>3 DEF Idle
<1>5. service.call.n # 0
  BY <1>3, CallNumber DEF CallbacksInv, ServiceInv
<1>6. Numbers(service'.batch) = {} /\ Once(service'.batch)
  BY <1>4 DEF Numbers, Once
<1>7. Types'
  BY <1>1, <1>3, <1>4 DEF CallbacksInv, Types
<1>8. ServiceInv'
  BY <1>4 DEF ServiceInv
<1>9. NumbersInv'
  <2>1. Pending' = Pending
    BY <1>3 DEF Pending
  <2>2. Partition(Pending, Numbers(callbacks), Numbers(service.batch), {service.call.n} \ {0},
               Numbers(got), dropped, 1 .. events)'
    BY <1>3, <1>4, <1>5, <1>6, <2>1 DEF CallbacksInv, NumbersInv, Partition
  <2> QED BY <1>3, <1>4, <1>6, <2>2 DEF CallbacksInv, NumbersInv
<1> QED BY <1>1, <1>7, <1>8, <1>9 DEF CallbacksInv

(* An event that is reported and forgotten, and one whose procedure is     *)
(* called at once.                                                         *)
LEMMA ForgottenStep ==
  ASSUME CallbacksInv, UNCHANGED Listening, events' = events + 1,
         dropped' = dropped \cup {events + 1},
         UNCHANGED <<callbacks, length, service, emitter, got>>
  PROVE  CallbacksInv'
<1>1. Packet' = Packet /\ Answer' = Answer /\ HandlersInv' /\ lib' = lib
  BY SameData, SameHandlers DEF CallbacksInv, Listening
<1>2. 1 .. events' = (1 .. events) \cup {events + 1} /\ events + 1 \notin 1 .. events
  BY DEF CallbacksInv, Types
<1>3. Types'
  BY <1>1 DEF CallbacksInv, Types
<1>4. ServiceInv'
  BY <1>1 DEF CallbacksInv, ServiceInv
<1>5. NumbersInv'
  <2>1. Pending' = Pending
    BY DEF Pending
  <2>2. Partition(Pending, Numbers(callbacks), Numbers(service.batch), {service.call.n} \ {0},
               Numbers(got), dropped, 1 .. events)'
    BY <1>2, <2>1 DEF CallbacksInv, NumbersInv, Partition
  <2> QED BY <2>2 DEF CallbacksInv, NumbersInv
<1> QED BY <1>1, <1>3, <1>4, <1>5 DEF CallbacksInv

LEMMA DirectStep ==
  ASSUME CallbacksInv, UNCHANGED Listening, events' = events + 1,
         NEW heard \in Answer, heard.n = events + 1, got' = Append(got, heard),
         UNCHANGED <<callbacks, length, service, emitter, dropped>>
  PROVE  CallbacksInv'
<1>1. Packet' = Packet /\ Answer' = Answer /\ HandlersInv' /\ lib' = lib
  BY SameData, SameHandlers DEF CallbacksInv, Listening
<1>2. 1 .. events' = (1 .. events) \cup {events + 1} /\ events + 1 \notin 1 .. events
  BY DEF CallbacksInv, Types
<1>3. heard.n \notin Numbers(got)
  BY <1>2 DEF CallbacksInv, NumbersInv, Partition
<1>4. got' \in Seq(Answer) /\ Numbers(got)' = Numbers(got) \cup {heard.n} /\ Once(got)'
  BY <1>3, AppendOne DEF CallbacksInv, Types, NumbersInv
<1>5. Types'
  BY <1>1, <1>4 DEF CallbacksInv, Types
<1>6. ServiceInv'
  BY <1>1 DEF CallbacksInv, ServiceInv
<1>7. NumbersInv'
  <2>1. Pending' = Pending
    BY DEF Pending
  <2>2. Partition(Pending, Numbers(callbacks), Numbers(service.batch), {service.call.n} \ {0},
               Numbers(got), dropped, 1 .. events)'
    BY <1>2, <1>4, <2>1 DEF CallbacksInv, NumbersInv, Partition
  <2> QED BY <1>4, <2>2 DEF CallbacksInv, NumbersInv
<1> QED BY <1>1, <1>5, <1>6, <1>7 DEF CallbacksInv

(* Nothing of the queue changes.                                           *)
LEMMA OtherStep ==
  ASSUME CallbacksInv, UNCHANGED Listening, UNCHANGED queueVars
  PROVE  CallbacksInv'
<1>1. Packet' = Packet /\ Answer' = Answer /\ HandlersInv'
  BY SameData, SameHandlers DEF CallbacksInv
<1>2. Types'
  BY <1>1 DEF CallbacksInv, Types, queueVars
<1>3. ServiceInv'
  BY DEF CallbacksInv, ServiceInv, queueVars
<1>4. NumbersInv'
  <2>1. Pending' = Pending
    BY DEF Pending, queueVars
  <2> QED BY <2>1 DEF CallbacksInv, NumbersInv, queueVars
<1> QED BY <1>1, <1>2, <1>3, <1>4 DEF CallbacksInv

(* A listener more.                                                        *)
LEMMA AddHandlerStep ==
  ASSUME CallbacksInv, NEW event \in DOMAIN Listeners(class), BglAddHandler(event), object' = object
  PROVE  CallbacksInv'
<1>1. CASE UNCHANGED <<handlers, slot>>
  BY <1>1, OtherStep DEF BglAddHandler, Listening, queueVars
<1>2. CASE /\ handlers' = Append(handlers, Listeners(class)[event].type)
           /\ slot' = OrElse([e \in {event} |-> Len(handlers) + 1], slot)
  <2>1. /\ class' = class /\ lib = "phidget" /\ lib' = lib
        /\ UNCHANGED <<mutex, callbacks, length, service, emitter, events, got, dropped>>
    BY DEF BglAddHandler, queueVars
  <2>2. handlers \in Seq(TypesOf(class)) /\ Listeners(class)[event].type \in TypesOf(class)
    BY DEF CallbacksInv, HandlersInv, TypesOf
  <2>3. /\ handlers' \in Seq(TypesOf(class)) /\ Len(handlers) \in Nat
        /\ DOMAIN handlers = 1 .. Len(handlers) /\ DOMAIN handlers' = 1 .. Len(handlers) + 1
        /\ \A h \in 1 .. Len(handlers) : handlers'[h] = handlers[h]
        /\ handlers'[Len(handlers) + 1] = Listeners(class)[event].type
    BY <1>2, <2>2
  <2>4. HandlersInv'
    <3>1. TypesOf(class)' = TypesOf(class)
      BY <2>1 DEF TypesOf
    <3>2. ASSUME NEW e \in DOMAIN slot'
          PROVE  /\ e \in DOMAIN Listeners(class)
                 /\ slot'[e] \in DOMAIN handlers'
                 /\ handlers'[slot'[e]] = Listeners(class)[e].type
      <4>1. CASE e = event
        <5>1. slot'[e] = Len(handlers) + 1
          BY <1>2, <4>1 DEF OrElse
        <5> QED BY <2>3, <4>1, <5>1
      <4>2. CASE e # event
        <5>1. e \in DOMAIN slot /\ slot'[e] = slot[e]
          BY <1>2, <4>2 DEF OrElse
        <5>2. /\ e \in DOMAIN Listeners(class) /\ slot[e] \in DOMAIN handlers
              /\ handlers[slot[e]] = Listeners(class)[e].type
          BY <5>1 DEF CallbacksInv, HandlersInv
        <5> QED BY <2>3, <5>1, <5>2
      <4> QED BY <4>1, <4>2
    <3> QED BY <2>1, <2>3, <3>1, <3>2 DEF CallbacksInv, HandlersInv
  <2>5. \A h \in DOMAIN handlers : h \in DOMAIN handlers' /\ handlers'[h] = handlers[h]
    BY <2>3
  <2>6. Data \subseteq Data'
    BY <2>1, <2>5 DEF Data
  <2>7. Told \subseteq Told'
    BY <2>1, <2>5 DEF Told
  <2>8. Packet \subseteq Packet'
    BY <2>6 DEF Packet
  <2>9. Answer \subseteq Answer'
    BY <2>7 DEF Answer
  <2>10. Types'
    <3>1. Seq(Packet) \subseteq Seq(Packet')
      BY <2>8
    <3>2. Seq(Answer) \subseteq Seq(Answer')
      BY <2>9
    <3>3. service \in [at : Phases, index : Nat, batch : Seq(Packet'), call : {Idle} \cup Packet']
      BY <2>8, <3>1 DEF CallbacksInv, Types
    <3>4. emitter \in [Foreign -> {Idle} \cup Packet']
      BY <2>8 DEF CallbacksInv, Types
    <3>5. callbacks \in Seq(Packet') /\ got \in Seq(Answer')
      BY <3>1, <3>2 DEF CallbacksInv, Types
    <3> QED BY <2>1, <3>3, <3>4, <3>5 DEF CallbacksInv, Types
  <2>11. ServiceInv'
    BY <2>1 DEF CallbacksInv, ServiceInv
  <2>12. NumbersInv'
    <3>1. Pending' = Pending
      BY <2>1 DEF Pending
    <3> QED BY <2>1, <3>1 DEF CallbacksInv, NumbersInv
  <2> QED BY <2>4, <2>10, <2>11, <2>12 DEF CallbacksInv
<1> QED BY <1>1, <1>2 DEF BglAddHandler

-----------------------------------------------------------------------------
(* The steps of the three libraries.                                       *)
LEMMA PhidgetStep ==
  ASSUME CallbackConstants, CallbacksInv, UNCHANGED <<gstVars, avahiVars>>,
         PhidgetNext \/ BglPhidgetInvoke \/ PhidgetRaises
  PROVE  CallbacksInv'
<1>0. object' = object
  BY DEF avahiVars
<1>1. ASSUME NEW event \in DOMAIN Listeners(class), BglAddHandler(event) PROVE CallbacksInv'
  BY <1>0, <1>1, AddHandlerStep
<1>2. ASSUME NEW f \in Foreign, DeviceEvent(f) PROVE CallbacksInv'
  <2>1. PICK event \in DOMAIN slot :
          Emit(f, [handler |-> slot[event], member |-> Listeners(class)[event].member])
    BY <1>2 DEF DeviceEvent
  <2>2. UNCHANGED Listening /\ lib = "phidget"
    BY <1>0, <1>2, <2>1 DEF DeviceEvent, phidgetVars, Listening, Emit
  <2>3. /\ event \in DOMAIN Listeners(class) /\ slot[event] \in DOMAIN handlers
        /\ handlers[slot[event]] = Listeners(class)[event].type
    BY <2>1 DEF CallbacksInv, HandlersInv
  <2>4. Listeners(class)[event].member = Reads(handlers[slot[event]])
    BY <2>3, Tables DEF CallbacksInv, HandlersInv, Matching
  <2>5. [handler |-> slot[event], member |-> Listeners(class)[event].member] \in Data
    BY <2>2, <2>3, <2>4 DEF Data
  <2> QED BY <2>1, <2>2, <2>5, EmitStep
<1>3. CASE BglPhidgetInvoke
  <2> DEFINE answer == [n |-> service.call.n, sent |-> service.call.data.member,
                        heard |-> Reads(handlers[service.call.data.handler])]
  <2>1. lib = "phidget" /\ Return(answer) /\ UNCHANGED Listening
    BY <1>0, <1>3 DEF BglPhidgetInvoke, phidgetVars, Listening, Return
  <2>2. service.call \in Packet /\ service.call.n \in Nat \ {0}
    <3>1. service.call # Idle
      BY <2>1 DEF Return, CallbacksInv, ServiceInv
    <3>2. service.call \in Packet
      BY <3>1, CallNumber DEF CallbacksInv
    <3> QED BY <3>2 DEF Packet
  <2>3. PICK h \in DOMAIN handlers :
          service.call.data = [handler |-> h, member |-> Reads(handlers[h])]
    BY <2>1, <2>2 DEF Packet, Data
  <2>4. answer = [n |-> service.call.n, sent |-> Reads(handlers[h]), heard |-> Reads(handlers[h])]
    BY <2>3
  <2>5. Reads(handlers[h]) \in Told
    BY <2>1 DEF Told
  <2>6. answer \in Answer /\ answer.n = service.call.n
    BY <2>2, <2>4, <2>5 DEF Answer
  <2> HIDE DEF answer
  <2> QED BY <2>1, <2>6, ReturnStep
<1>4. CASE PhidgetRaises
  <2>1. Raise /\ UNCHANGED Listening
    BY <1>0, <1>4 DEF PhidgetRaises, phidgetVars, Listening, Raise
  <2> QED BY <2>1, RaiseStep
<1> QED BY <1>1, <1>2, <1>3, <1>4 DEF PhidgetNext

LEMMA GstStep ==
  ASSUME CallbackConstants, CallbacksInv, UNCHANGED <<phidgetVars, avahiVars>>,
         GstNext \/ GstInvoke \/ GstRaises
  PROVE  CallbacksInv'
<1>0. lib' = lib => UNCHANGED Listening
  BY DEF avahiVars, phidgetVars, Listening
<1>1. ASSUME NEW f \in Foreign, BusSyncHandler(f) PROVE CallbacksInv'
  <2>1. Emit(f, [arity |-> 1]) /\ lib = "gst" /\ UNCHANGED Listening
    BY <1>0, <1>1 DEF BusSyncHandler, Emit
  <2>2. [arity |-> 1] \in Data
    BY <2>1 DEF Data
  <2> QED BY <2>1, <2>2, EmitStep
<1>2. ASSUME NEW f \in Foreign, NEW n \in {0, 4, 5}, ClosureMarshal(f, n) PROVE CallbacksInv'
  <2>1. lib = "gst"
    BY <1>2 DEF ClosureMarshal
  <2>2. CASE n > 4
    BY <1>0, <1>2, <2>2, ForgottenStep DEF ClosureMarshal
  <2>3. CASE ~ (n > 4) /\ useThreads
    <3> DEFINE answer == [n |-> events + 1, sent |-> n, heard |-> n]
    <3>1. /\ events' = events + 1 /\ got' = Append(got, answer) /\ UNCHANGED Listening
          /\ UNCHANGED <<callbacks, length, service, emitter, dropped>>
      BY <1>0, <1>2, <2>3 DEF ClosureMarshal
    <3>2. events + 1 \in Nat \ {0} /\ n \in Told
      BY <2>1 DEF CallbacksInv, Types, Told
    <3>3. answer \in Answer /\ answer.n = events + 1
      BY <3>2 DEF Answer
    <3> HIDE DEF answer
    <3> QED BY <3>1, <3>3, DirectStep
  <2>4. CASE ~ (n > 4) /\ ~ useThreads
    <3>1. Emit(f, [arity |-> n]) /\ UNCHANGED Listening
      BY <1>0, <1>2, <2>4 DEF ClosureMarshal, Emit
    <3>2. [arity |-> n] \in Data
      BY <2>1, <2>4 DEF Data
    <3> QED BY <3>1, <3>2, EmitStep
  <2> QED BY <2>2, <2>3, <2>4
<1>3. CASE NestedSignal
  <2>1. Nested([arity |-> 1]) /\ lib = "gst" /\ UNCHANGED Listening
    BY <1>0, <1>3 DEF NestedSignal, Nested
  <2>2. [arity |-> 1] \in Data
    BY <2>1 DEF Data
  <2> QED BY <2>1, <2>2, NestedStep
<1>4. CASE GstInvoke
  <2> DEFINE answer == [n |-> service.call.n, sent |-> service.call.data.arity,
                        heard |-> IF service.call.data.arity \in 0 .. 4
                                  THEN service.call.data.arity ELSE 0]
  <2>1. lib = "gst" /\ Return(answer) /\ UNCHANGED Listening
    BY <1>0, <1>4 DEF GstInvoke, Return
  <2>2. service.call \in Packet
    <3>1. service.call # Idle
      BY <2>1 DEF Return, CallbacksInv, ServiceInv
    <3> QED BY <3>1, CallNumber DEF CallbacksInv
  <2>3. service.call.n \in Nat \ {0} /\ service.call.data.arity \in 0 .. 4
    BY <2>1, <2>2 DEF Packet, Data
  <2>4. service.call.data.arity \in Told
    BY <2>1, <2>3 DEF Told
  <2>5. answer \in Answer /\ answer.n = service.call.n
    BY <2>3, <2>4 DEF Answer
  <2> HIDE DEF answer
  <2> QED BY <2>1, <2>5, ReturnStep
<1>5. CASE GstRaises
  <2>1. Raise /\ UNCHANGED Listening
    BY <1>0, <1>5 DEF GstRaises, Raise
  <2> QED BY <2>1, RaiseStep
<1>6. CASE UNCHANGED queueVars
  BY <1>0, <1>6, OtherStep DEF queueVars
<1> QED BY <1>1, <1>2, <1>3, <1>4, <1>5, <1>6
        DEF GstNext, SrcSetPort, SrcCreate, SrcFinalize, SinkSetPort, SinkSet, SinkStart, SinkRender, SinkError,
            SinkStop, SinkBuffer

LEMMA CallOrRegisterStep ==
  ASSUME CallbackConstants, CallbacksInv, UNCHANGED <<object, class, handlers, slot>>, lib = "avahi",
         NEW cb \in [kind : Kinds, arity : Nat] \cup [kind : {"timeout"}, arity : {0}, proc : Timeouts],
         CallOrRegister(cb)
  PROVE  CallbacksInv'
<1>1. UNCHANGED Listening /\ cb \in Data /\ PollThread \in Foreign
  BY DEF CallOrRegister, Emit, Listening, Data, PollThread, CallbackConstants
<1>2. CASE threaded
  BY <1>1, <1>2, EmitStep DEF CallOrRegister
<1>3. CASE ~ threaded /\ cb.arity \in Applicable
  <2>1. /\ events' = events + 1 /\ got' = Append(got, Applied(events + 1, cb))
        /\ UNCHANGED <<callbacks, length, service, emitter, dropped>>
    BY <1>3 DEF CallOrRegister
  <2>2. events + 1 \in Nat \ {0} /\ cb.arity \in Told
    BY DEF CallbacksInv, Types, Told
  <2>3. Applied(events + 1, cb) \in Answer /\ Applied(events + 1, cb).n = events + 1
    BY <2>2 DEF Answer, Applied
  <2> QED BY <1>1, <2>1, <2>3, DirectStep
<1>4. CASE ~ threaded /\ cb.arity \notin Applicable
  BY <1>1, <1>4, ForgottenStep DEF CallOrRegister
<1> QED BY <1>2, <1>3, <1>4

LEMMA AvahiStep ==
  ASSUME CallbackConstants, CallbacksInv, UNCHANGED <<phidgetVars, gstVars>>, AvahiNext
  PROVE  CallbacksInv'
<1>0. UNCHANGED <<class, handlers, slot>>
  BY DEF phidgetVars
<1>1. ASSUME NEW k \in Kinds, NEW ok \in BOOLEAN, New(k, ok) PROVE CallbacksInv'
  BY <1>0, <1>1, OtherStep DEF New, Listening, queueVars
<1>2. ASSUME NEW k \in Kinds, NEW after, Close(k, after) PROVE CallbacksInv'
  BY <1>0, <1>2, OtherStep DEF Close, Listening, queueVars
<1>3. ASSUME NEW k \in Kinds, NEW arity \in Nat, NEW adopts, Callback(k, arity, adopts)
      PROVE  CallbacksInv'
  BY <1>0, <1>3, CallOrRegisterStep DEF Callback
<1>4. ASSUME NEW p \in Timeouts, PollTimeout(p) PROVE CallbacksInv'
  BY <1>0, <1>4, OtherStep DEF PollTimeout, Listening, queueVars
<1>5. ASSUME NEW p \in Timeouts, TimeoutCallback(p) PROVE CallbacksInv'
  BY <1>0, <1>5, CallOrRegisterStep DEF TimeoutCallback
<1>6. ASSUME NEW k \in Kinds, AvahiObject(k) PROVE CallbacksInv'
  <2> USE DEF Kinds
  <2>1. CASE k = "client"
    BY <1>1, <1>2, <1>3, <1>6, <2>1 DEF AvahiObject, ClientCallback, ClientClose, ClientNew
  <2>2. CASE k = "group"
    BY <1>1, <1>2, <1>3, <1>6, <2>2 DEF AvahiObject, EntryGroupCallback, EntryGroupClose, EntryGroupNew
  <2>3. CASE k = "browser"
    BY <1>1, <1>2, <1>3, <1>6, <2>3 DEF AvahiObject, BrowserCallback, BrowserClose, BrowserNew
  <2>4. CASE k = "typebrowser"
    BY <1>1, <1>2, <1>3, <1>6, <2>4
       DEF AvahiObject, TypeBrowserCallback, TypeBrowserClose, TypeBrowserNew
  <2>5. CASE k = "domainbrowser"
    BY <1>1, <1>2, <1>3, <1>6, <2>5
       DEF AvahiObject, DomainBrowserCallback, DomainBrowserClose, DomainBrowserNew
  <2>6. CASE k = "resolver"
    BY <1>1, <1>2, <1>3, <1>6, <2>6 DEF AvahiObject, ResolverCallback, ResolverClose, ResolverNew
  <2> QED BY <2>1, <2>2, <2>3, <2>4, <2>5, <2>6
<1>7. object # "timeout" => {"client", object} \subseteq Kinds
  BY DEF CallbacksInv, HandlersInv, Kinds
<1> QED BY <1>4, <1>5, <1>6, <1>7 DEF AvahiNext

LEMMA AvahiServiceStep ==
  ASSUME CallbacksInv, UNCHANGED <<phidgetVars, gstVars>>,
         InvokeRead \/ InvokeCopy \/ ApplyLast \/ ApplyEnd \/ AvahiInvoke \/ AvahiRaises
  PROVE  CallbacksInv'
<1>1. lib = "avahi" /\ UNCHANGED Listening
  BY DEF phidgetVars, avahiVars, Listening, InvokeRead, InvokeCopy, ApplyLast, ApplyEnd, AvahiInvoke,
         AvahiRaises, Return, Raise
<1>2. CASE InvokeRead
  BY <1>1, <1>2, InvokeReadStep
<1>3. CASE InvokeCopy
  BY <1>1, <1>3, InvokeCopyStep
<1>4. CASE ApplyLast
  BY <1>1, <1>4, ApplyLastStep
<1>5. CASE ApplyEnd
  BY <1>1, <1>5, PhaseStep DEF ApplyEnd, Phases
<1>6. CASE AvahiInvoke
  <2> DEFINE answer == Applied(service.call.n, service.call.data)
  <2>1. Return(answer)
    BY <1>6 DEF AvahiInvoke
  <2>2. service.call \in Packet
    <3>1. service.call # Idle
      BY <2>1 DEF Return, CallbacksInv, ServiceInv
    <3> QED BY <3>1, CallNumber DEF CallbacksInv
  <2>3. service.call.n \in Nat \ {0} /\ service.call.data.arity \in Nat
    BY <1>1, <2>2 DEF Packet, Data
  <2>4. service.call.data.arity \in Told
    BY <1>1, <2>3 DEF Told
  <2>5. answer \in Answer /\ answer.n = service.call.n
    BY <2>3, <2>4 DEF Answer, Applied
  <2> HIDE DEF answer
  <2> QED BY <1>1, <2>1, <2>5, ReturnStep
<1>7. CASE AvahiRaises
  BY <1>1, <1>7, RaiseStep DEF AvahiRaises
<1> QED BY <1>2, <1>3, <1>4, <1>5, <1>6, <1>7

LEMMA QueueStep ==
  ASSUME CallbackConstants, CallbacksInv, QueueNext \/ ServiceStep
  PROVE  CallbacksInv'
<1>1. UNCHANGED Listening
  BY DEF QueueNext, ServiceStep, phidgetVars, avahiVars, Listening, Register, SpuriousWakeup, Wait,
         Woken, InvokeLast, InvokeEnd
<1>2. ASSUME NEW f \in Foreign, Register(f) PROVE CallbacksInv'
  BY <1>1, <1>2, RegisterStep
<1>3. CASE SpuriousWakeup \/ Wait \/ Woken \/ InvokeEnd
  <2>1. PICK p \in Phases \ {"calling", "indexed"} : service' = [service EXCEPT !.at = p]
    BY <1>3 DEF SpuriousWakeup, Wait, Woken, InvokeEnd, Phases
  <2>2. /\ service.at # "calling" /\ service.batch = <<>>
        /\ UNCHANGED <<callbacks, length, emitter, events, got, dropped>>
    BY <1>3 DEF SpuriousWakeup, Wait, Woken, InvokeEnd, CallbacksInv, ServiceInv
  <2> QED BY <1>1, <2>1, <2>2, PhaseStep
<1>4. CASE InvokeLast
  BY <1>1, <1>4, InvokeLastStep
<1> QED BY <1>2, <1>3, <1>4 DEF QueueNext, ServiceStep

LEMMA InvStep ==
  ASSUME CallbackConstants, CallbacksInv, [CallbacksNext]_callbackVars
  PROVE  CallbacksInv'
<1>1. CASE UNCHANGED callbackVars
  BY <1>1, OtherStep DEF callbackVars, Listening, queueVars, phidgetVars, avahiVars
<1>2. CASE CallbacksNext
  BY <1>2, PhidgetStep, GstStep, AvahiStep, AvahiServiceStep, QueueStep, Zenon
     DEF CallbacksNext, Steps, ServiceCalls
<1> QED BY <1>1, <1>2

LEMMA Inductive ==
  ASSUME CallbackConstants
  PROVE  CallbacksSpec => []CallbacksInv
<1>1. CallbacksInit => CallbacksInv
  BY Initially
<1>2. CallbacksInv /\ [CallbacksNext]_callbackVars => CallbacksInv'
  BY InvStep
<1> QED BY <1>1, <1>2, PTL DEF CallbacksSpec

-----------------------------------------------------------------------------
(* Theorem Delivered: whatever foreign threads register, and whatever the  *)
(* procedures do, each event of bglgst.c, bglphidget.c and bglavahi.c is   *)
(* in one place on its way to the procedure, gets there once with the data *)
(* of the C handler, and the array of callbacks has room for it.           *)
THEOREM Delivered ==
  ASSUME CallbackConstants
  PROVE  CallbacksSpec => []CallbacksExact
<1>1. CallbacksInv => CallbacksExact
  BY InvExact
<1> QED BY <1>1, Inductive, PTL

-----------------------------------------------------------------------------
(* What is in the hands of the service thread stays there until the call.  *)
Called(n) == InHand(n)' \/ (n \in Numbers(got) \/ service.at = "dead")'

LEMMA HandStill ==
  ASSUME UNCHANGED <<lib, callbacks, service>>, NEW n \in Nat, InHand(n)
  PROVE  Called(n)
BY DEF InHand, Called

LEMMA HandStored ==
  ASSUME CallbacksInv, lib' = lib, NEW cb \in Packet, Stored(cb), NEW n \in Nat, InHand(n)
  PROVE  Called(n)
<1>1. callbacks' = Append(callbacks, cb) /\ service' = Signalled
  BY DEF Stored
<1>2. /\ callbacks \in Seq(Packet)
      /\ service \in [at : Phases, index : Nat, batch : Seq(Packet), call : {Idle} \cup Packet]
  BY DEF CallbacksInv, Types
<1>3. Numbers(callbacks) \subseteq Numbers(callbacks')
  BY <1>1, <1>2, AppendOne
<1>4. /\ service'.batch = service.batch /\ service'.call = service.call
      /\ service.at # "waiting" => service' = service
  BY <1>1, <1>2 DEF Signalled
<1>5. CASE service.at = "indexed" /\ n \in Numbers(SubSeq(callbacks, 1, service.index))
  <2>1. service.index \in 0 .. Len(callbacks) /\ service' = service
    BY <1>2, <1>4, <1>5 DEF CallbacksInv, ServiceInv
  <2>2. SubSeq(callbacks', 1, service.index) = SubSeq(callbacks, 1, service.index)
    BY <1>1, <1>2, <2>1
  <2> QED BY <1>5, <2>1, <2>2 DEF Called, InHand
<1> QED BY <1>3, <1>4, <1>5 DEF Called, InHand

(* The steps that take something from the array, or from the copy of it.   *)
LEMMA HandService ==
  ASSUME CallbacksInv, CallbacksInv', lib' = lib, NEW n \in Nat \ {0}, InHand(n),
         \/ Wait \/ SpuriousWakeup \/ Woken \/ InvokeLast \/ InvokeEnd
         \/ InvokeRead \/ InvokeCopy \/ ApplyLast \/ ApplyEnd
  PROVE  Called(n)
<1>1. /\ callbacks \in Seq(Packet)
      /\ service \in [at : Phases, index : Nat, batch : Seq(Packet), call : {Idle} \cup Packet]
      /\ Once(callbacks) /\ Once(service.batch)
  BY DEF CallbacksInv, Types, NumbersInv
<1>2. service.at # "calling" => service.call.n # n
  BY DEF CallbacksInv, ServiceInv, Idle
<1>3. service.at \notin {"invoking", "calling"} \/ lib # "avahi" => Numbers(service.batch) = {}
  BY DEF CallbacksInv, ServiceInv, Numbers
<1>4. CASE Wait
  BY <1>2, <1>3, <1>4 DEF Wait, InHand
<1>5. CASE SpuriousWakeup
  BY <1>2, <1>3, <1>5 DEF SpuriousWakeup, InHand
<1>6. CASE Woken
  <2>1. n \in Numbers(callbacks) /\ callbacks' = callbacks
    BY <1>2, <1>3, <1>6 DEF Woken, InHand
  <2>2. service'.at = IF lib = "avahi" THEN "unlocked" ELSE "invoking"
    BY <1>1, <1>6 DEF Woken
  <2> QED BY <2>1, <2>2 DEF Called, InHand
<1>7. CASE InvokeLast
  <2>1. /\ n \in Numbers(callbacks) /\ callbacks # <<>> /\ callbacks' = Front(callbacks)
        /\ lib # "avahi"
    BY <1>2, <1>3, <1>7 DEF InvokeLast, InHand
  <2>2. service'.at = "calling" /\ service'.call = Last(callbacks)
    BY <1>1, <1>7 DEF InvokeLast, Calling
  <2>3. Numbers(callbacks') = Numbers(callbacks) \ {Last(callbacks).n}
    BY <1>1, <2>1, TakeLast
  <2> QED BY <2>1, <2>2, <2>3 DEF Called, InHand
<1>8. CASE InvokeEnd
  <2>1. Numbers(callbacks) = {}
    BY <1>8 DEF InvokeEnd, Numbers
  <2> QED BY <1>2, <1>3, <1>8, <2>1 DEF InvokeEnd, InHand
<1>9. CASE InvokeRead
  <2>1. n \in Numbers(callbacks) /\ callbacks' = callbacks
    BY <1>2, <1>3, <1>9 DEF InvokeRead, InHand
  <2>2. service'.at = "indexed" /\ service'.index = Len(callbacks)
    BY <1>1, <1>9 DEF InvokeRead
  <2>3. SubSeq(callbacks, 1, Len(callbacks)) = callbacks
    BY <1>1, SubSeqFull
  <2> QED BY <2>1, <2>2, <2>3 DEF Called, InHand
<1>10. CASE InvokeCopy
  <2>1. n \in Numbers(SubSeq(callbacks, 1, service.index))
    BY <1>2, <1>3, <1>10 DEF InvokeCopy, InHand
  <2>2. service'.batch = SubSeq(callbacks, 1, service.index)
    BY <1>1, <1>10 DEF InvokeCopy
  <2> QED BY <2>1, <2>2 DEF Called, InHand
<1>11. CASE ApplyLast
  <2>1. n \in Numbers(service.batch) /\ service.batch # <<>>
    BY <1>2, <1>11 DEF ApplyLast, InHand
  <2>2. service'.call = Last(service.batch) /\ service'.batch = Front(service.batch)
    BY <1>1, <1>11 DEF ApplyLast, Calling
  <2>3. Numbers(Front(service.batch)) = Numbers(service.batch) \ {Last(service.batch).n}
    BY <1>1, <2>1, TakeLast
  <2> QED BY <2>1, <2>2, <2>3 DEF Called, InHand
<1>12. CASE ApplyEnd
  <2>1. Numbers(service.batch) = {}
    BY <1>12 DEF ApplyEnd, Numbers
  <2> QED BY <1>2, <1>12, <2>1 DEF ApplyEnd, InHand
<1> QED BY <1>4, <1>5, <1>6, <1>7, <1>8, <1>9, <1>10, <1>11, <1>12

LEMMA HandReturn ==
  ASSUME CallbacksInv, lib' = lib, NEW answer, answer.n = service.call.n, Return(answer),
         NEW n \in Nat, InHand(n)
  PROVE  Called(n)
<1>1. service \in [at : Phases, index : Nat, batch : Seq(Packet), call : {Idle} \cup Packet]
  BY DEF CallbacksInv, Types
<1>2. /\ got' = Append(got, answer) /\ callbacks' = callbacks /\ service.at = "calling"
      /\ service'.at = "invoking" /\ service'.batch = service.batch
  BY <1>1 DEF Return
<1>3. got \in Seq(Answer)
  BY DEF CallbacksInv, Types
<1>4. Len(got) + 1 \in DOMAIN got' /\ got'[Len(got) + 1] = answer
  BY <1>2, <1>3
<1>5. service.call.n \in Numbers(got')
  BY <1>4 DEF Numbers
<1> QED BY <1>2, <1>5 DEF Called, InHand

LEMMA HandRaise ==
  ASSUME CallbacksInv, Raise, NEW n
  PROVE  Called(n)
BY DEF Raise, Called, CallbacksInv, Types

LEMMA HandStep ==
  ASSUME CallbackConstants, CallbacksInv, [CallbacksNext]_callbackVars
  PROVE  NotForgotten
<1> SUFFICES ASSUME NEW n \in Nat \ {0}, InHand(n) PROVE Called(n)
  BY DEF NotForgotten, Called, CallbackConstants
<1>0. CallbacksInv'
  BY InvStep
<1>1. CASE UNCHANGED <<lib, callbacks, service>>
  BY <1>1, HandStill
<1>2. CASE PhidgetNext
  BY <1>1, <1>2 DEF PhidgetNext, BglAddHandler, DeviceEvent, Emit, queueVars
<1>3. CASE GstNext
  <2>1. CASE NestedSignal
    <3>1. /\ Stored([n |-> events + 1, data |-> [arity |-> 1]]) /\ lib = "gst" /\ lib' = lib
      BY <2>1 DEF NestedSignal, Nested
    <3>2. events + 1 \in Nat \ {0} /\ [arity |-> 1] \in Data
      BY <3>1 DEF CallbacksInv, Types, Data
    <3>3. [n |-> events + 1, data |-> [arity |-> 1]] \in Packet
      BY <3>2 DEF Packet
    <3> QED BY <3>1, <3>3, HandStored
  <2>2. ASSUME NEW f \in Foreign, BusSyncHandler(f) \/ \E k \in {0, 4, 5} : ClosureMarshal(f, k)
        PROVE  UNCHANGED <<lib, callbacks, service>>
    BY <2>2 DEF BusSyncHandler, ClosureMarshal, Emit
  <2>3. CASE UNCHANGED queueVars
    BY <1>1, <2>3 DEF queueVars
  <2> QED BY <1>1, <1>3, <2>1, <2>2, <2>3
          DEF GstNext, SrcSetPort, SrcCreate, SrcFinalize, SinkSetPort, SinkSet, SinkStart, SinkRender, SinkError,
              SinkStop, SinkBuffer
<1>4. CASE AvahiNext
  <2>1. ASSUME NEW k, NEW x, NEW y, New(k, x) \/ Close(k, x) \/ Callback(k, x, y)
        PROVE  UNCHANGED <<lib, callbacks, service>>
    BY <2>1 DEF New, Close, Callback, CallOrRegister, Emit, queueVars
  <2>2. ASSUME NEW p \in Timeouts, PollTimeout(p) \/ TimeoutCallback(p)
        PROVE  UNCHANGED <<lib, callbacks, service>>
    BY <2>2 DEF PollTimeout, TimeoutCallback, CallOrRegister, Emit, queueVars
  <2>3. ASSUME NEW k \in Kinds, AvahiObject(k) PROVE UNCHANGED <<lib, callbacks, service>>
    BY <2>1, <2>3
       DEF AvahiObject, Kinds, ClientCallback, ClientClose, ClientNew, EntryGroupCallback,
           EntryGroupClose, EntryGroupNew, BrowserCallback, BrowserClose, BrowserNew,
           TypeBrowserCallback, TypeBrowserClose, TypeBrowserNew, DomainBrowserCallback,
           DomainBrowserClose, DomainBrowserNew, ResolverCallback, ResolverClose, ResolverNew
  <2>4. object # "timeout" => {"client", object} \subseteq Kinds
    BY DEF CallbacksInv, HandlersInv, Kinds
  <2>5. UNCHANGED <<lib, callbacks, service>>
    BY <1>4, <2>2, <2>3, <2>4 DEF AvahiNext
  <2> QED BY <1>1, <2>5
<1>5. CASE ServiceCalls
  <2>1. CASE BglPhidgetInvoke \/ GstInvoke \/ AvahiInvoke
    <3>1. PICK answer : Return(answer) /\ answer.n = service.call.n
      BY <2>1 DEF BglPhidgetInvoke, GstInvoke, AvahiInvoke, Applied
    <3> QED BY <3>1, HandReturn DEF Return
  <2>2. CASE PhidgetRaises \/ GstRaises \/ AvahiRaises
    BY <2>2, HandRaise DEF PhidgetRaises, GstRaises, AvahiRaises
  <2>3. CASE InvokeRead \/ InvokeCopy \/ ApplyLast \/ ApplyEnd
    BY <1>0, <2>3, HandService DEF InvokeRead, InvokeCopy, ApplyLast, ApplyEnd
  <2> QED BY <1>5, <2>1, <2>2, <2>3 DEF ServiceCalls
<1>6. CASE QueueNext \/ ServiceStep
  <2>1. ASSUME NEW f \in Foreign, Register(f) PROVE Called(n)
    <3>1. Stored(emitter[f]) /\ lib' = lib /\ emitter[f] \in Packet
      BY <2>1, EmitterNumber DEF Register, CallbacksInv
    <3> QED BY <3>1, HandStored
  <2>2. CASE SpuriousWakeup \/ Wait \/ Woken \/ InvokeLast \/ InvokeEnd
    BY <1>0, <2>2, HandService DEF SpuriousWakeup, Wait, Woken, InvokeLast, InvokeEnd
  <2> QED BY <1>6, <2>1, <2>2 DEF QueueNext, ServiceStep
<1> QED BY <1>1, <1>2, <1>3, <1>4, <1>5, <1>6 DEF CallbacksNext, Steps, callbackVars, queueVars

(* Theorem Attended: a service thread of gstreamer.scm, pdgevent.scm or    *)
(* avahi.scm never goes back to sleep over a callback that it found when   *)
(* it was woken, or that came before avahi read the index: it stays in     *)
(* hand until the call, unless a procedure raises.                         *)
THEOREM Attended ==
  ASSUME CallbackConstants
  PROVE  CallbacksSpec => [][NotForgotten]_callbackVars
<1>1. CallbacksInv /\ [CallbacksNext]_callbackVars => NotForgotten
  BY HandStep
<1> QED BY <1>1, Inductive, PTL DEF CallbacksSpec

-----------------------------------------------------------------------------
(* The port elements of gstreamer.                                         *)
Buffer == {b \in [port : Ports \cup {NoPort}, offset : Nat, from : Nat, to : Nat] :
             b.offset > 0 /\ IsSeekable(b.port) => b.from = b.offset}

SinkPorts == {NoPort, "out", "other", "file"}

Sink == [port : SinkPorts, uri : BOOLEAN, autoclose : BOOLEAN, closed : SUBSET SinkPorts,
         left : Seq(Nat), started : BOOLEAN, flow : {"ok", "eos", "error"}]

PortsInv ==
  /\ src \in [port : Ports \cup {NoPort}, opened : BOOLEAN, filepos : Nat]
  /\ pushed \in Seq(Buffer)
  /\ sink \in Sink
  /\ rendered \in Seq(Nat) /\ written \in Seq(Nat)
  /\ rendered = written \o sink.left
  /\ sink.flow = "eos" => sink.left = <<>>
  /\ ~ sink.started /\ sink.flow # "error" => sink.left = <<>>

LEMMA PortsInit ==
  ASSUME CallbacksInit
  PROVE  PortsInv
<1>1. PICK t \in BOOLEAN : InitGst(t)
  BY DEF CallbacksInit
<1>2. /\ src = [port |-> NoPort, opened |-> FALSE, filepos |-> 0]
      /\ sink = [port |-> NoPort, uri |-> FALSE, autoclose |-> FALSE, closed |-> {},
                 left |-> <<>>, started |-> FALSE, flow |-> "ok"]
      /\ pushed = <<>> /\ rendered = <<>> /\ written = <<>>
  BY <1>1 DEF InitGst
<1>3. <<>> \in Seq(Nat) /\ <<>> \in Seq(Buffer) /\ <<>> \o <<>> = <<>>
  OBVIOUS
<1>4. src \in [port : Ports \cup {NoPort}, opened : BOOLEAN, filepos : Nat]
  BY <1>2
<1>5. sink \in Sink /\ sink.left = <<>> /\ sink.flow = "ok"
  BY <1>2, <1>3 DEF Sink, SinkPorts
<1> QED BY <1>2, <1>3, <1>4, <1>5 DEF PortsInv

LEMMA SrcStep ==
  ASSUME CallbackConstants, PortsInv, NEW offset \in 0 .. 2, NEW len \in 1 .. 2, SrcCreate(offset, len)
  PROVE  PortsInv'
<1> DEFINE from == SeekTo(offset)
<1>1. src \in [port : Ports \cup {NoPort}, opened : BOOLEAN, filepos : Nat]
  BY DEF PortsInv
<1>2. from \in Nat /\ (offset > 0 /\ IsSeekable(src.port) => from = offset)
  BY <1>1 DEF SeekTo
<1>3. UNCHANGED <<sink, rendered, written>>
  BY DEF SrcCreate
<1>4. CASE src' = [src EXCEPT !.filepos = from] /\ UNCHANGED pushed
  BY <1>1, <1>2, <1>3, <1>4 DEF PortsInv
<1>5. CASE \E n \in 1 .. (IF len < PortSize - from THEN len ELSE PortSize - from) :
               /\ src' = [src EXCEPT !.filepos = from + n]
               /\ pushed' = Append(pushed, [port |-> src.port, offset |-> offset, from |-> from,
                                            to |-> from + n])
  <2>1. PICK n \in 1 .. (IF len < PortSize - from THEN len ELSE PortSize - from) :
               /\ src' = [src EXCEPT !.filepos = from + n]
               /\ pushed' = Append(pushed, [port |-> src.port, offset |-> offset, from |-> from,
                                            to |-> from + n])
    BY <1>5
  <2> HIDE DEF from
  <2>2. from + n \in Nat
    BY <1>2, <2>1 DEF CallbackConstants
  <2> DEFINE buffer == [port |-> src.port, offset |-> offset, from |-> from, to |-> from + n]
  <2>3. buffer \in Buffer
    BY <1>1, <1>2, <2>2 DEF Buffer
  <2> HIDE DEF buffer
  <2>4. pushed' = Append(pushed, buffer)
    BY <2>1 DEF buffer
  <2>5. pushed' \in Seq(Buffer)
    BY <2>3, <2>4 DEF PortsInv
  <2> QED BY <1>1, <1>3, <2>1, <2>2, <2>5 DEF PortsInv
<1> QED BY <1>4, <1>5 DEF SrcCreate

(* The port takes n bytes of what is left.                                 *)
LEMMA Regroup ==
  ASSUME NEW s \in Seq(Nat), NEW t \in Seq(Nat), NEW u \in Seq(Nat)
  PROVE  (s \o t) \o u = s \o (t \o u)
BY ConcatAssociative, SMTT(40)

LEMMA Moved ==
  ASSUME NEW a \in Seq(Nat), NEW b \in Seq(Nat), NEW n \in 1 .. Len(b)
  PROVE  /\ a \o SubSeq(b, 1, n) \in Seq(Nat) /\ SubSeq(b, n + 1, Len(b)) \in Seq(Nat)
         /\ (a \o SubSeq(b, 1, n)) \o SubSeq(b, n + 1, Len(b)) = a \o b
<1>1. Len(b) \in Nat /\ n \in Nat /\ n <= Len(b)
  OBVIOUS
<1>2. SubSeq(b, 1, n) \in Seq(Nat)
  BY <1>1
<1>3. SubSeq(b, n + 1, Len(b)) \in Seq(Nat)
  <2>1. \A i \in n + 1 .. Len(b) : b[i] \in Nat
    BY <1>1
  <2> QED BY <1>1, <2>1, SubSeqProperties
<1>4. SubSeq(b, 1, n) \o SubSeq(b, n + 1, Len(b)) = SubSeq(b, 1, Len(b))
  <2>1. 1 \in 1 .. Len(b) + 1 /\ n \in 1 - 1 .. Len(b) /\ Len(b) \in n .. Len(b)
    BY <1>1
  <2> QED BY <2>1, ConcatAdjacentSubSeq
<1>5. SubSeq(b, 1, Len(b)) = b
  BY SubSeqFull
<1>6. a \o SubSeq(b, 1, n) \in Seq(Nat)
  BY <1>2, ConcatProperties
<1>7. (a \o SubSeq(b, 1, n)) \o SubSeq(b, n + 1, Len(b))
         = a \o (SubSeq(b, 1, n) \o SubSeq(b, n + 1, Len(b)))
  BY <1>2, <1>3, Regroup, Zenon
<1> QED BY <1>3, <1>4, <1>5, <1>6, <1>7, Zenon

LEMMA PortsStep ==
  ASSUME CallbackConstants, PortsInv, UNCHANGED gstVars \/ GstNext
  PROVE  PortsInv'
<1>1. CASE UNCHANGED gstVars
  BY <1>1 DEF gstVars, PortsInv
<1>2. ASSUME NEW p \in Ports, NEW opened \in BOOLEAN, SrcSetPort(p, opened) PROVE PortsInv'
  BY <1>2 DEF SrcSetPort, PortsInv
<1>3. CASE SrcFinalize
  BY <1>3 DEF SrcFinalize, PortsInv
<1>4. ASSUME NEW p \in {"out", "other"}, SinkSetPort(p) PROVE PortsInv'
  BY <1>4 DEF SinkSetPort, PortsInv, Sink, SinkPorts
<1>5. ASSUME NEW uri \in BOOLEAN, NEW close \in BOOLEAN, SinkSet(uri, close) PROVE PortsInv'
  BY <1>5 DEF SinkSet, PortsInv, Sink
<1>6. CASE SinkStart
  <2>1. PICK port \in SinkPorts :
          sink' = [sink EXCEPT !.started = TRUE, !.flow = "ok", !.left = <<>>, !.port = port]
    BY <1>6 DEF SinkStart, PortsInv, Sink, SinkPorts
  <2>2. <<>> \in Seq(Nat) /\ <<>> \o <<>> = <<>>
    OBVIOUS
  <2>3. sink' \in Sink /\ sink'.left = <<>> /\ sink'.flow = "ok"
    BY <2>1, <2>2 DEF PortsInv, Sink
  <2>4. rendered' = <<>> /\ written' = <<>> /\ UNCHANGED <<src, pushed>>
    BY <1>6 DEF SinkStart
  <2> QED BY <2>2, <2>3, <2>4 DEF PortsInv
<1>7. CASE SinkStop
  <2>1. PICK closed \in SUBSET SinkPorts :
          sink' = [sink EXCEPT !.started = FALSE, !.uri = FALSE, !.closed = closed]
    BY <1>7 DEF SinkStop, PortsInv, Sink
  <2>2. sink.flow # "error" => sink.left = <<>>
    BY <1>7 DEF SinkStop, Rendering, PortsInv, Sink
  <2> QED BY <1>7, <2>1, <2>2 DEF SinkStop, PortsInv, Sink
<1>8. ASSUME NEW n \in 0 .. 3, SinkBuffer(n) PROVE PortsInv'
  <2> DEFINE bytes == [i \in 1 .. n |-> Len(rendered) + i]
             flow == IF n = 0 THEN "eos" ELSE "ok"
  <2>1. /\ sink' = [sink EXCEPT !.left = bytes, !.flow = flow] /\ rendered' = rendered \o bytes
        /\ sink.left = <<>> /\ sink.started /\ UNCHANGED <<src, pushed, written>>
    BY <1>8 DEF SinkBuffer
  <2>2. bytes \in Seq(Nat) /\ (flow = "eos" => bytes = <<>>)
    <3>1. Len(rendered) \in Nat
      BY DEF PortsInv
    <3>2. \A i \in 1 .. n : Len(rendered) + i \in Nat
      BY <3>1
    <3>3. n = 0 => bytes = <<>>
      <4>1. [i \in 1 .. 0 |-> Len(rendered) + i] = <<>>
        OBVIOUS
      <4> QED BY <4>1, Zenon
    <3> QED BY <3>2, <3>3
  <2>3. rendered = written
    BY <2>1, ConcatEmptySeq DEF PortsInv
  <2>4. flow \in {"ok", "eos", "error"}
    OBVIOUS
  <2> HIDE DEF bytes, flow
  <2>5. rendered' \in Seq(Nat)
    BY <2>1, <2>2, ConcatProperties DEF PortsInv
  <2>6. sink'.left = bytes /\ sink'.flow = flow /\ sink'.started /\ sink' \in Sink
    BY <2>1, <2>2, <2>4 DEF PortsInv, Sink
  <2> QED BY <2>1, <2>2, <2>3, <2>5, <2>6 DEF PortsInv
<1>12. CASE SinkRender
  <2>1. PICK n \in 1 .. (IF Len(sink.left) < SyswriteMax THEN Len(sink.left) ELSE SyswriteMax) :
          /\ written' = written \o SubSeq(sink.left, 1, n)
          /\ sink' = [sink EXCEPT !.left = SubSeq(@, n + 1, Len(@))]
    BY <1>12 DEF SinkRender
  <2> DEFINE left == sink.left
             rest == SubSeq(left, n + 1, Len(left))
  <2>2. left \in Seq(Nat) /\ written \in Seq(Nat) /\ n \in 1 .. Len(left)
    BY <2>1 DEF PortsInv, Sink, CallbackConstants
  <2>3. /\ written' \in Seq(Nat) /\ rest \in Seq(Nat) /\ written' \o rest = written \o left
    BY <2>1, <2>2, Moved
  <2>4. sink' = [sink EXCEPT !.left = rest]
    BY <2>1 DEF PortsInv, Sink
  <2>5. sink.flow = "ok" /\ left # <<>> /\ UNCHANGED <<src, pushed, rendered>>
    BY <1>12 DEF SinkRender, Rendering
  <2> HIDE DEF rest
  <2>6. /\ sink'.left = rest /\ sink'.flow = "ok" /\ sink'.started = sink.started
        /\ sink' \in Sink
    BY <2>3, <2>4, <2>5 DEF PortsInv, Sink
  <2>7. sink.started
    BY <2>5 DEF PortsInv
  <2> QED BY <2>3, <2>5, <2>6, <2>7 DEF PortsInv
<1>13. CASE SinkError
  BY <1>13 DEF SinkError, Rendering, PortsInv, Sink
<1>9. ASSUME NEW f \in Foreign, BusSyncHandler(f) \/ \E n \in {0, 4, 5} : ClosureMarshal(f, n)
      PROVE  PortsInv'
  BY <1>1, <1>9 DEF BusSyncHandler, ClosureMarshal
<1>10. CASE NestedSignal
  BY <1>1, <1>10 DEF NestedSignal
<1>11. ASSUME NEW offset \in 0 .. 2, NEW len \in 1 .. 2, SrcCreate(offset, len) PROVE PortsInv'
  BY <1>11, SrcStep
<1> QED BY <1>1, <1>2, <1>3, <1>4, <1>5, <1>6, <1>7, <1>8, <1>9, <1>10, <1>11, <1>12, <1>13, Zenon
    DEF GstNext

-----------------------------------------------------------------------------
(* The timeouts of avahi.  A procedure that was not given to two timeouts  *)
(* at a time has one timeout that is set, or one callback on its way.      *)
Held == Range(callbacks) \cup Range(service.batch) \cup Range(emitter)

Waiting(p) == {c \in Held : c.n > 0 /\ c.data.kind = "timeout" /\ c.data.proc = p}

Single(p) ==
  /\ timers[p] <= 1
  /\ \A c, d \in Waiting(p) : c = d
  /\ timers[p] = 1 => Waiting(p) = {}
  /\ timers[p] = 1 \/ Waiting(p) # {} => procs[p] > 0

TimeoutsInv ==
  /\ procs \in [Timeouts -> Nat] /\ timers \in [Timeouts -> Nat]
  /\ lib = "avahi" => \A p \in Timeouts \ again : Single(p)

LEMMA InvKept ==
  ASSUME CallbacksInv, TimeoutsInv
  PROVE  TimeoutKept
<1> SUFFICES ASSUME lib = "avahi", NEW p \in Timeouts \ again,
                    timers[p] > 0 \/ \E c \in Range(callbacks \o service.batch) \cup Range(emitter) :
                        c.n > 0 /\ c.data.kind = "timeout" /\ c.data.proc = p
             PROVE  procs[p] > 0
  BY DEF TimeoutKept
<1>1. Single(p) /\ timers[p] \in Nat
  BY DEF TimeoutsInv
<1>2. CASE timers[p] > 0
  BY <1>1, <1>2 DEF Single
<1>3. ASSUME NEW c \in Range(callbacks \o service.batch) \cup Range(emitter),
             c.n > 0 /\ c.data.kind = "timeout" /\ c.data.proc = p
      PROVE  procs[p] > 0
  <2>1. callbacks \in Seq(Packet) /\ service.batch \in Seq(Packet)
    BY DEF CallbacksInv, Types
  <2> DEFINE a == callbacks
             b == service.batch
  <2>2. /\ a \o b \in Seq(Packet) /\ Len(a \o b) = Len(a) + Len(b)
        /\ \A i \in 1 .. Len(a) + Len(b) : (a \o b)[i] = IF i <= Len(a) THEN a[i] ELSE b[i - Len(a)]
    BY <2>1, ConcatProperties
  <2>3. /\ Len(a) \in Nat /\ Len(b) \in Nat /\ DOMAIN a = 1 .. Len(a) /\ DOMAIN b = 1 .. Len(b)
        /\ DOMAIN (a \o b) = 1 .. Len(a) + Len(b)
    BY <2>1, <2>2
  <2>4. c \in Held
    <3>1. CASE c \in Range(emitter)
      BY <3>1 DEF Held
    <3>2. CASE c \in Range(a \o b)
      <4>1. PICK i \in 1 .. Len(a) + Len(b) : c = (a \o b)[i]
        BY <2>3, <3>2 DEF Range
      <4>2. CASE i <= Len(a)
        BY <2>2, <2>3, <4>1, <4>2 DEF Held, Range
      <4>3. CASE ~ (i <= Len(a))
        <5>1. i - Len(a) \in 1 .. Len(b)
          BY <2>3, <4>3
        <5>2. c = b[i - Len(a)]
          BY <2>2, <4>1, <4>3
        <5> HIDE DEF a
        <5> QED BY <2>3, <5>1, <5>2 DEF Held, Range
      <4> QED BY <4>2, <4>3
    <3> QED BY <1>3, <3>1, <3>2
  <2>5. c \in Waiting(p)
    BY <1>3, <2>4 DEF Waiting
  <2> QED BY <1>1, <2>5 DEF Single
<1> QED BY <1>2, <1>3

LEMMA TimeoutsInit ==
  ASSUME CallbacksInit
  PROVE  TimeoutsInv
<1>1. /\ procs = [p \in Timeouts |-> 0] /\ timers = [p \in Timeouts |-> 0] /\ callbacks = <<>>
      /\ service.batch = <<>> /\ emitter = [f \in Foreign |-> Idle]
  BY DEF CallbacksInit, InitAvahi, InitQueue
<1>2. \A c \in Held : c = Idle
  BY <1>1 DEF Held, Range
<1>3. \A p \in Timeouts : Waiting(p) = {}
  BY <1>2 DEF Waiting, Idle
<1> QED BY <1>1, <1>3 DEF TimeoutsInv, Single

(* Callbacks move on, or go.                                               *)
LEMMA FewerStep ==
  ASSUME TimeoutsInv, lib' = lib, UNCHANGED <<procs, timers, again>>,
         \A p \in Timeouts : Waiting(p)' \subseteq Waiting(p)
  PROVE  TimeoutsInv'
<1>1. ASSUME NEW p \in Timeouts, Single(p) PROVE Single(p)'
  BY <1>1 DEF Single, TimeoutsInv
<1> QED BY <1>1 DEF TimeoutsInv

LEMMA MovedStep ==
  ASSUME TimeoutsInv, lib' = lib, UNCHANGED <<procs, timers, again>>,
         \A c \in Held' : c \in Held \/ c = Idle \/ c.data.kind # "timeout"
  PROVE  TimeoutsInv'
<1>1. \A p \in Timeouts : Waiting(p)' \subseteq Waiting(p)
  BY DEF Waiting, Idle
<1> QED BY <1>1, FewerStep

LEMMA PollTimeoutStep ==
  ASSUME TimeoutsInv, NEW p \in Timeouts, PollTimeout(p)
  PROVE  TimeoutsInv'
<1>1. /\ procs' = [procs EXCEPT ![p] = @ + 1] /\ timers' = [timers EXCEPT ![p] = @ + 1]
      /\ again' = IF procs[p] > 0 THEN again \cup {p} ELSE again
      /\ lib = "avahi" /\ lib' = lib /\ Held' = Held
  BY DEF PollTimeout, queueVars, Held
<1>2. \A q \in Timeouts : Waiting(q)' = Waiting(q)
  BY <1>1 DEF Waiting
<1>3. procs' \in [Timeouts -> Nat] /\ timers' \in [Timeouts -> Nat]
  BY <1>1 DEF TimeoutsInv
<1>4. ASSUME NEW q \in Timeouts \ again' PROVE Single(q)'
  <2>1. q \notin again /\ Single(q) /\ procs[q] \in Nat /\ timers[q] \in Nat
    BY <1>1 DEF TimeoutsInv
  <2>2. CASE q # p
    BY <1>1, <1>2, <2>1, <2>2 DEF Single, TimeoutsInv
  <2>3. CASE q = p
    <3>1. procs[p] = 0 /\ timers[p] = 0 /\ Waiting(p) = {}
      BY <1>1, <2>1, <2>3 DEF Single
    <3>2. procs'[p] = 1 /\ timers'[p] = 1
      BY <1>1, <3>1 DEF TimeoutsInv
    <3> QED BY <1>2, <2>3, <3>1, <3>2 DEF Single
  <2> QED BY <2>2, <2>3
<1> QED BY <1>3, <1>4 DEF TimeoutsInv

LEMMA TimeoutStep ==
  ASSUME CallbackConstants, CallbacksInv, TimeoutsInv, NEW p \in Timeouts, TimeoutCallback(p)
  PROVE  TimeoutsInv'
<1> DEFINE cb == [kind |-> "timeout", arity |-> 0, proc |-> p]
<1>1. /\ timers[p] > 0 /\ timers' = [timers EXCEPT ![p] = @ - 1] /\ again' = again
      /\ lib = "avahi" /\ CallOrRegister(cb)
  BY DEF TimeoutCallback
<1>2. lib' = lib /\ UNCHANGED <<callbacks, service>>
  BY <1>1 DEF CallOrRegister, Emit
<1>3. timers' \in [Timeouts -> Nat] /\ timers'[p] = timers[p] - 1 /\ timers[p] \in Nat
  BY <1>1 DEF TimeoutsInv
<1>4. CASE threaded
  <2> DEFINE new == [n |-> events + 1, data |-> cb]
  <2>1. emitter' = [emitter EXCEPT ![PollThread] = new] /\ procs' = procs
    BY <1>1, <1>4 DEF CallOrRegister, Emit
  <2>2. \A c \in Held' : c \in Held \/ c = new
    BY <1>2, <2>1 DEF Held, Range, CallbacksInv, Types
  <2>3. new.data.kind = "timeout" /\ new.data.proc = p
    OBVIOUS
  <2> HIDE DEF new
  <2>4. \A q \in Timeouts : q # p => Waiting(q)' \subseteq Waiting(q)
    BY <2>2, <2>3 DEF Waiting
  <2>5. Waiting(p)' \subseteq Waiting(p) \cup {new}
    BY <2>2 DEF Waiting
  <2>6. ASSUME NEW q \in Timeouts \ again PROVE Single(q)'
    <3>1. Single(q)
      BY <1>1 DEF TimeoutsInv
    <3>2. CASE q # p
      <4>1. timers'[q] = timers[q]
        BY <1>1, <3>2 DEF TimeoutsInv
      <4>2. Waiting(q)' \subseteq Waiting(q)
        BY <2>4, <3>2
      <4> QED BY <2>1, <3>1, <4>1, <4>2 DEF Single
    <3>3. CASE q = p
      <4>1. timers[p] = 1 /\ Waiting(p) = {} /\ procs[p] > 0
        BY <1>1, <1>3, <3>1, <3>3 DEF Single
      <4>2. Waiting(p)' \subseteq {new} /\ timers'[p] = 0
        BY <1>3, <2>5, <4>1
      <4> QED BY <2>1, <3>3, <4>1, <4>2 DEF Single
    <3> QED BY <3>2, <3>3
  <2> QED BY <1>1, <1>2, <1>3, <2>1, <2>6 DEF TimeoutsInv
<1>5. CASE ~ threaded
  <2>1. procs' = [procs EXCEPT ![p] = 0] /\ emitter' = emitter
    BY <1>1, <1>5 DEF CallOrRegister, Kept
  <2>2. \A q \in Timeouts : Waiting(q)' = Waiting(q)
    BY <1>2, <2>1 DEF Waiting, Held
  <2>3. procs' \in [Timeouts -> Nat]
    BY <2>1 DEF TimeoutsInv
  <2>4. ASSUME NEW q \in Timeouts \ again PROVE Single(q)'
    <3>1. Single(q)
      BY <1>1 DEF TimeoutsInv
    <3>2. CASE q # p
      <4>1. timers'[q] = timers[q] /\ procs'[q] = procs[q]
        BY <1>1, <2>1, <3>2 DEF TimeoutsInv
      <4> QED BY <2>2, <3>1, <4>1 DEF Single
    <3>3. CASE q = p
      <4>1. timers[p] = 1 /\ Waiting(p) = {}
        BY <1>1, <1>3, <3>1, <3>3 DEF Single
      <4> QED BY <1>3, <2>2, <3>3, <4>1 DEF Single
    <3> QED BY <3>2, <3>3
  <2> QED BY <1>1, <1>2, <1>3, <2>3, <2>4 DEF TimeoutsInv
<1> QED BY <1>4, <1>5

(* The service thread takes the last callback of its copy, and its         *)
(* procedure from those that are kept: no other callback needs it.         *)
LEMMA AppliedStep ==
  ASSUME CallbacksInv, TimeoutsInv, ApplyLast
  PROVE  TimeoutsInv'
<1> DEFINE cb == Last(service.batch)
<1>1. /\ service.batch \in Seq(Packet) /\ service.batch # <<>> /\ Once(service.batch)
      /\ service \in [at : Phases, index : Nat, batch : Seq(Packet), call : {Idle} \cup Packet]
  BY DEF CallbacksInv, Types, NumbersInv, ApplyLast
<1>2. /\ lib = "avahi" /\ lib' = lib /\ UNCHANGED <<callbacks, emitter, timers, again>>
      /\ procs' = Kept(cb.data) /\ service'.batch = Front(service.batch)
  BY <1>1 DEF ApplyLast, Calling
<1>3. /\ cb \in Packet /\ cb.n \in Numbers(service.batch)
      /\ Numbers(Front(service.batch)) = Numbers(service.batch) \ {cb.n}
  BY <1>1, TakeLast
<1>4. cb \in Range(service.batch) /\ Range(Front(service.batch)) \subseteq Range(service.batch)
  BY <1>1 DEF Last, Front, Range
<1>5. \A q \in Timeouts : Waiting(q)' \subseteq Waiting(q)
  BY <1>2, <1>4 DEF Waiting, Held
<1>6. \A d \in Held' : d.n # cb.n \/ d.n = 0
  <2> SUFFICES ASSUME NEW d \in Held', d.n = cb.n, d.n # 0 PROVE FALSE
    OBVIOUS
  <2>1. CASE d \in Range(callbacks)
    <3>1. d.n \in Numbers(callbacks)
      BY <2>1 DEF Range, Numbers
    <3> QED BY <1>3, <3>1 DEF CallbacksInv, NumbersInv, Partition
  <2>2. CASE d \in Range(Front(service.batch))
    <3>1. d.n \in Numbers(Front(service.batch))
      BY <2>2 DEF Range, Numbers
    <3> QED BY <1>3, <3>1
  <2>3. CASE d \in Range(emitter)
    <3>1. d.n \in Pending
      BY <2>3 DEF Range, Pending, CallbacksInv, Types
    <3> QED BY <1>3, <3>1 DEF CallbacksInv, NumbersInv, Partition
  <2> QED BY <1>2, <2>1, <2>2, <2>3 DEF Held
<1>7. cb.n \in Nat \ {0} /\ cb.data \in [kind : Kinds, arity : Nat]
                           \cup [kind : {"timeout"}, arity : {0}, proc : Timeouts]
  BY <1>2, <1>3 DEF Packet, Data
<1> HIDE DEF cb
<1>8. CASE cb.data.kind # "timeout"
  BY <1>2, <1>5, <1>8, FewerStep DEF Kept
<1>9. CASE cb.data.kind = "timeout"
  <2>1. cb.data.proc \in Timeouts /\ procs' = [procs EXCEPT ![cb.data.proc] = 0]
    BY <1>2, <1>7, <1>9 DEF Kept, Kinds
  <2>2. procs' \in [Timeouts -> Nat] /\ timers' \in [Timeouts -> Nat]
    BY <1>2, <2>1 DEF TimeoutsInv
  <2>3. ASSUME NEW q \in Timeouts \ again PROVE Single(q)'
    <3>1. Single(q) /\ Waiting(q)' \subseteq Waiting(q)
      BY <1>2, <1>5 DEF TimeoutsInv
    <3>2. CASE q # cb.data.proc
      <4>1. procs'[q] = procs[q] /\ timers'[q] = timers[q]
        BY <1>2, <2>1, <3>2 DEF TimeoutsInv
      <4> QED BY <3>1, <4>1 DEF Single
    <3>3. CASE q = cb.data.proc
      <4>1. cb \in Waiting(q)
        BY <1>4, <1>7, <1>9, <3>3 DEF Waiting, Held
      <4>2. timers[q] # 1 /\ \A d \in Waiting(q) : d = cb
        BY <3>1, <4>1 DEF Single
      <4>3. Waiting(q)' = {}
        <5> SUFFICES ASSUME NEW d \in Waiting(q)' PROVE FALSE
          OBVIOUS
        <5>1. d = cb /\ d \in Held'
          BY <3>1, <4>2 DEF Waiting
        <5> QED BY <1>6, <1>7, <5>1
      <4> QED BY <1>2, <3>1, <4>2, <4>3 DEF Single
    <3> QED BY <3>2, <3>3
  <2> QED BY <1>2, <2>2, <2>3 DEF TimeoutsInv
<1> QED BY <1>8, <1>9

LEMMA RegisteredStep ==
  ASSUME CallbacksInv, TimeoutsInv, UNCHANGED <<procs, timers, again>>,
         NEW f \in Foreign, Register(f)
  PROVE  TimeoutsInv'
<1>1. /\ callbacks' = Append(callbacks, emitter[f]) /\ service' = Signalled /\ lib' = lib
      /\ emitter' = [emitter EXCEPT ![f] = Idle]
  BY DEF Register, Stored
<1>2. /\ callbacks \in Seq(Packet) /\ emitter[f] \in Packet
      /\ service \in [at : Phases, index : Nat, batch : Seq(Packet), call : {Idle} \cup Packet]
      /\ emitter \in [Foreign -> {Idle} \cup Packet]
  BY EmitterNumber DEF CallbacksInv, Types, Register
<1>3. Range(callbacks') = Range(callbacks) \cup {emitter[f]}
  <2>1. /\ Len(callbacks) \in Nat /\ DOMAIN callbacks = 1 .. Len(callbacks)
        /\ DOMAIN callbacks' = 1 .. Len(callbacks) + 1
        /\ \A i \in 1 .. Len(callbacks) : callbacks'[i] = callbacks[i]
        /\ callbacks'[Len(callbacks) + 1] = emitter[f]
    BY <1>1, <1>2
  <2> QED BY <2>1 DEF Range
<1>4. service'.batch = service.batch
  BY <1>1, <1>2 DEF Signalled
<1>5. emitter[f] \in Range(emitter) /\ Range(emitter') \subseteq Range(emitter) \cup {Idle}
  BY <1>1, <1>2 DEF Range
<1>6. \A c \in Held' : c \in Held \/ c = Idle
  BY <1>3, <1>4, <1>5 DEF Held
<1> QED BY <1>1, <1>6, MovedStep

LEMMA ServiceMovesStep ==
  ASSUME CallbacksInv, TimeoutsInv, UNCHANGED <<procs, timers, again>>,
         \/ SpuriousWakeup \/ Wait \/ Woken \/ InvokeLast \/ InvokeEnd
         \/ InvokeRead \/ InvokeCopy \/ ApplyEnd \/ Raise \/ \E answer : Return(answer)
  PROVE  TimeoutsInv'
<1>1. /\ callbacks \in Seq(Packet)
      /\ service \in [at : Phases, index : Nat, batch : Seq(Packet), call : {Idle} \cup Packet]
  BY DEF CallbacksInv, Types
<1>2. emitter' = emitter /\ lib' = lib
  BY DEF SpuriousWakeup, Wait, Woken, InvokeLast, InvokeEnd, InvokeRead, InvokeCopy, ApplyEnd, Raise,
         Return
<1>3. Range(callbacks') \subseteq Range(callbacks)
  <2>1. CASE callbacks' = callbacks
    BY <2>1
  <2>2. CASE callbacks' = <<>>
    BY <2>2 DEF Range
  <2>3. CASE callbacks' = Front(callbacks) /\ callbacks # <<>>
    BY <1>1, <2>3 DEF Range, Front
  <2> QED BY <2>1, <2>2, <2>3 DEF SpuriousWakeup, Wait, Woken, InvokeLast, InvokeEnd, InvokeRead,
                                  InvokeCopy, ApplyEnd, Raise, Return
<1>4. Range(service'.batch) \subseteq Range(callbacks) \cup Range(service.batch)
  <2>1. CASE service'.batch = service.batch
    BY <2>1
  <2>2. CASE Raise
    <3>1. service'.batch = <<>>
      BY <1>1, <2>2 DEF Raise
    <3> QED BY <3>1 DEF Range
  <2>3. CASE InvokeCopy
    <3>1. service'.batch = SubSeq(callbacks, 1, service.index)
      BY <1>1, <2>3 DEF InvokeCopy
    <3>2. service.index \in 0 .. Len(callbacks)
      BY <1>1, <2>3 DEF InvokeCopy, CallbacksInv, ServiceInv
    <3> QED BY <1>1, <3>1, <3>2 DEF Range
  <2> QED BY <1>1, <2>1, <2>2, <2>3
          DEF SpuriousWakeup, Wait, Woken, InvokeLast, InvokeEnd, InvokeRead, ApplyEnd, Return, Calling
<1>5. \A c \in Held' : c \in Held
  BY <1>2, <1>3, <1>4 DEF Held
<1> QED BY <1>2, <1>5, MovedStep

LEMMA TimeoutsStep ==
  ASSUME CallbackConstants, CallbacksInv, TimeoutsInv, [CallbacksNext]_callbackVars
  PROVE  TimeoutsInv'
<1>1. CASE UNCHANGED <<procs, timers, again>> /\ lib' = lib /\ lib # "avahi"
  BY <1>1 DEF TimeoutsInv
<1>2. CASE UNCHANGED <<procs, timers, again, lib, callbacks, service, emitter>>
  <2>1. Held' = Held
    BY <1>2 DEF Held
  <2> QED BY <1>2, <2>1, MovedStep
<1>3. CASE PhidgetNext /\ UNCHANGED <<gstVars, avahiVars>>
  BY <1>1, <1>3 DEF PhidgetNext, BglAddHandler, DeviceEvent, Emit, queueVars, avahiVars
<1>4. CASE GstNext /\ UNCHANGED <<phidgetVars, avahiVars>>
  <2>1. UNCHANGED <<procs, timers, again>>
    BY <1>4 DEF avahiVars
  <2>2. ASSUME NEW f \in Foreign, BusSyncHandler(f) \/ \E n \in {0, 4, 5} : ClosureMarshal(f, n)
        PROVE  lib = "gst" /\ lib' = lib
    BY <2>2 DEF BusSyncHandler, ClosureMarshal, Emit
  <2>3. CASE NestedSignal
    BY <1>1, <2>1, <2>3 DEF NestedSignal, Nested
  <2>4. CASE UNCHANGED queueVars
    BY <1>2, <2>1, <2>4 DEF queueVars
  <2> QED BY <1>1, <1>4, <2>1, <2>2, <2>3, <2>4
          DEF GstNext, SrcSetPort, SrcCreate, SrcFinalize, SinkSetPort, SinkSet, SinkStart, SinkRender, SinkError,
              SinkStop, SinkBuffer
<1>5. CASE AvahiNext
  <2>1. ASSUME NEW k, NEW x, New(k, x) \/ Close(k, x) PROVE TimeoutsInv'
    BY <1>2, <2>1 DEF New, Close, queueVars
  <2>2. ASSUME NEW k \in Kinds, NEW arity \in Nat, NEW adopts, Callback(k, arity, adopts)
        PROVE  TimeoutsInv'
    <3> DEFINE cb == [kind |-> k, arity |-> arity]
    <3>1. CallOrRegister(cb) /\ UNCHANGED <<timers, again>>
      BY <2>2 DEF Callback
    <3>2. cb.kind = k /\ k # "timeout"
      BY DEF Kinds
    <3>3. /\ procs' = procs /\ lib' = lib /\ UNCHANGED <<callbacks, service>>
          /\ \/ emitter' = emitter
             \/ emitter' = [emitter EXCEPT ![PollThread] = [n |-> events + 1, data |-> cb]]
      BY <3>1, <3>2 DEF CallOrRegister, Emit, Kept
    <3>4. \A c \in Held' : c \in Held \/ c = [n |-> events + 1, data |-> cb]
      BY <3>3 DEF Held, Range, CallbacksInv, Types
    <3>5. [n |-> events + 1, data |-> cb].data.kind # "timeout"
      BY <3>2
    <3> QED BY <3>1, <3>3, <3>4, <3>5, MovedStep
  <2>3. ASSUME NEW k \in Kinds, AvahiObject(k) PROVE TimeoutsInv'
    <3> USE DEF Kinds
    <3>1. CASE k = "client"
      BY <2>1, <2>2, <2>3, <3>1 DEF AvahiObject, ClientCallback, ClientClose, ClientNew
    <3>2. CASE k = "group"
      BY <2>1, <2>2, <2>3, <3>2 DEF AvahiObject, EntryGroupCallback, EntryGroupClose, EntryGroupNew
    <3>3. CASE k = "browser"
      BY <2>1, <2>2, <2>3, <3>3 DEF AvahiObject, BrowserCallback, BrowserClose, BrowserNew
    <3>4. CASE k = "typebrowser"
      BY <2>1, <2>2, <2>3, <3>4
         DEF AvahiObject, TypeBrowserCallback, TypeBrowserClose, TypeBrowserNew
    <3>5. CASE k = "domainbrowser"
      BY <2>1, <2>2, <2>3, <3>5
         DEF AvahiObject, DomainBrowserCallback, DomainBrowserClose, DomainBrowserNew
    <3>6. CASE k = "resolver"
      BY <2>1, <2>2, <2>3, <3>6 DEF AvahiObject, ResolverCallback, ResolverClose, ResolverNew
    <3> QED BY <3>1, <3>2, <3>3, <3>4, <3>5, <3>6
  <2>4. object # "timeout" => {"client", object} \subseteq Kinds
    BY DEF CallbacksInv, HandlersInv, Kinds
  <2> QED BY <1>5, <2>3, <2>4, PollTimeoutStep, TimeoutStep DEF AvahiNext
<1>6. CASE ServiceCalls
  <2>1. CASE ApplyLast
    BY <2>1, AppliedStep
  <2>2. CASE BglPhidgetInvoke \/ PhidgetRaises \/ GstInvoke \/ GstRaises \/ InvokeRead \/ InvokeCopy
             \/ ApplyEnd \/ AvahiInvoke \/ AvahiRaises
    <3>1. CASE UNCHANGED avahiVars
      <4>1. UNCHANGED <<procs, timers, again>>
        BY <3>1 DEF avahiVars
      <4> QED BY <2>2, <4>1, ServiceMovesStep
              DEF BglPhidgetInvoke, PhidgetRaises, GstInvoke, GstRaises, AvahiInvoke, AvahiRaises
    <3> QED BY <1>6, <2>1, <2>2, <3>1
            DEF ServiceCalls, InvokeRead, InvokeCopy, ApplyEnd, AvahiInvoke, AvahiRaises
  <2> QED BY <1>6, <2>1, <2>2 DEF ServiceCalls
<1>7. CASE QueueNext \/ ServiceStep
  <2>1. UNCHANGED <<procs, timers, again>>
    BY <1>7 DEF QueueNext, ServiceStep, avahiVars
  <2>2. CASE SpuriousWakeup \/ Wait \/ Woken \/ InvokeLast \/ InvokeEnd
    BY <2>1, <2>2, ServiceMovesStep
  <2>3. ASSUME NEW f \in Foreign, Register(f) PROVE TimeoutsInv'
    BY <2>1, <2>3, RegisteredStep
  <2> QED BY <1>7, <2>2, <2>3 DEF QueueNext, ServiceStep
<1>8. CASE UNCHANGED callbackVars
  BY <1>2, <1>8 DEF callbackVars, queueVars, avahiVars
<1> QED BY <1>3, <1>4, <1>5, <1>6, <1>7, <1>8 DEF CallbacksNext, Steps

LEMMA ElementsStep ==
  ASSUME CallbackConstants, PortsInv, [CallbacksNext]_callbackVars
  PROVE  PortsInv'
<1>1. UNCHANGED gstVars \/ GstNext
  BY DEF CallbacksNext, Steps, ServiceCalls, GstInvoke, GstRaises, QueueNext, ServiceStep, callbackVars
<1> QED BY <1>1, PortsStep

(* Theorem Elements: whatever is asked of the port elements of gstreamer   *)
(* (bglgst_portsrc.c, bglgst_portsink.c), for ports of any length, whose   *)
(* writes may fail, a buffer labelled with an offset other than 0 of a     *)
(* seekable port holds the bytes of that offset, and the sink writes each  *)
(* byte that it is given once and in order, all of them when it stops      *)
(* without an error; and avahi-poll-timeout keeps a procedure that is      *)
(* still to be called from the collector, unless it was given to two       *)
(* timeouts at a time.  Not claimed of offset 0: the source does not seek  *)
(* to it.                                                                  *)
THEOREM Elements ==
  ASSUME CallbackConstants
  PROVE  CallbacksSpec => []ElementsExact
<1>1. CallbacksInit => PortsInv /\ TimeoutsInv
  BY PortsInit, TimeoutsInit
<1>2. CallbacksInv /\ PortsInv /\ TimeoutsInv /\ [CallbacksNext]_callbackVars
        => PortsInv' /\ TimeoutsInv'
  BY ElementsStep, TimeoutsStep
<1>3. ASSUME CallbacksInv, PortsInv, TimeoutsInv PROVE ElementsExact
  <2>1. PortElements
    <3>1. ASSUME NEW i \in DOMAIN pushed
          PROVE  pushed[i].offset > 0 /\ IsSeekable(pushed[i].port) => pushed[i].from = pushed[i].offset
      <4>1. pushed[i] \in Buffer
        BY <1>3 DEF PortsInv
      <4> QED BY <4>1 DEF Buffer
    <3> QED BY <1>3, <3>1 DEF PortsInv, PortElements
  <2> QED BY <1>3, <2>1, InvKept DEF ElementsExact
<1> QED BY <1>1, <1>2, <1>3, Inductive, PTL DEF CallbacksSpec
=============================================================================
