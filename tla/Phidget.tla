------------------------------- MODULE Phidget -------------------------------
(***************************************************************************)
(* The phidget binding (api/phidget/src/Clib/bglphidget.c): the listeners  *)
(* that a device class accepts, the C handler and the event type of each,  *)
(* and the union in which the handler leaves the data of the event for the *)
(* service thread.  A member of the union is given by the types of its     *)
(* fields, so that two members of the same layout are the same data.       *)
(***************************************************************************)
EXTENDS CallbackQueue

CONSTANTS Classes, MaxHandlers   \* classes in use; bound on listeners, handler_length

VARIABLES
  class,      \* the class of the device
  handlers,   \* the listeners: event type, procedure
  slot,       \* what the C library holds for each event: C handler and listener
  freed       \* free() was given the array of listeners, which the collector owns

phidgetVars == <<class, handlers, slot, freed>>

InitPhidget(c) == class = c /\ handlers = <<>> /\ slot = <<>> /\ freed = FALSE

(* The members that the C handlers fill in.                                *)
BglPhidgetHandler == <<"handle">>
BglErrorHandler == <<"int", "string">>
BglChangeHandler == <<"int", "int">>
BglSpatialHandler == <<"int", "int", "double9">>
BglServopositionHandler == <<"int", "double">>
BglAdvancedServoHandler == <<"int", "double">>
BglStepperHandler(event) ==
  CASE event = "input" -> <<"int", "int">>
    [] event \in {"velocity", "current"} -> <<"int", "double">>
    [] event = "position" -> <<"int", "longlong">>
BglMotorControlHandler == <<"int", "double">>
BglEncoderHandler(event) ==
  CASE event \in {"input", "index"} -> <<"int", "int">>
    [] event = "position" -> <<"int", "int", "int">>

(* The listeners of each class: the event type and the member its C        *)
(* handler fills in.                                                       *)
Row(type, member) == [type |-> type, member |-> member]

(* What a class does not know is left to the general function.             *)
OrElse(f, g) == [e \in DOMAIN f \cup DOMAIN g |-> IF e \in DOMAIN f THEN f[e] ELSE g[e]]

PhidgetAddEventListener ==
  [attach |-> Row("ATTACH", BglPhidgetHandler), detach |-> Row("DETACH", BglPhidgetHandler),
   error |-> Row("ERROR", BglErrorHandler),
   serverconnect |-> Row("SERVERCONNECT", BglPhidgetHandler),
   serverdisconnect |-> Row("SERVERDISCONNECT", BglPhidgetHandler)]

ManagerAddEventListener ==
  OrElse(
    [attach |-> Row("ATTACH", BglPhidgetHandler), detach |-> Row("DETACH", BglPhidgetHandler),
     error |-> Row("ERROR", BglErrorHandler)],
    PhidgetAddEventListener)

IfkitAddEventListener ==
  OrElse(
    [inputchange |-> Row("INPUTCHANGE", BglChangeHandler),
     outputchange |-> Row("OUTPUTCHANGE", BglChangeHandler),
     sensorchange |-> Row("SENSORCHANGE", BglChangeHandler)],
    PhidgetAddEventListener)

SpatialAddEventListener ==
  OrElse(
    [spatialdata |-> Row("SPATIALDATA", BglSpatialHandler)],
    PhidgetAddEventListener)

ServoAddEventListener ==
  OrElse(
    [position |-> Row("SERVOPOSITION", BglServopositionHandler)],
    PhidgetAddEventListener)

AdvancedServoAddEventListener ==
  OrElse(
    [position |-> Row("SERVOPOSITION", BglAdvancedServoHandler),
     velocity |-> Row("SERVOVELOCITY", BglAdvancedServoHandler),
     current |-> Row("SERVOCURRENT", BglAdvancedServoHandler)],
    PhidgetAddEventListener)

(* Mutant: the position of a stepper is announced as that of a servo.      *)
StepperAsServo ==
  OrElse(
    [input |-> Row("STEPPERINPUT", BglStepperHandler("input")),
     velocity |-> Row("STEPPERVELOCITY", BglStepperHandler("velocity")),
     position |-> Row("SERVOPOSITION", BglStepperHandler("position")),
     current |-> Row("STEPPERCURRENT", BglStepperHandler("current"))],
    PhidgetAddEventListener)

StepperAddEventListener ==
  OrElse(
    [input |-> Row("STEPPERINPUT", BglStepperHandler("input")),
     velocity |-> Row("STEPPERVELOCITY", BglStepperHandler("velocity")),
     position |-> Row("STEPPERPOSITION", BglStepperHandler("position")),
     current |-> Row("STEPPERCURRENT", BglStepperHandler("current"))],
    PhidgetAddEventListener)

MotorControlAddEventListener ==
  OrElse(
    [velocity |-> Row("MOTORCONTROLVELOCITY", BglMotorControlHandler),
     current |-> Row("MOTORCONTROLCURRENT", BglMotorControlHandler)],
    PhidgetAddEventListener)

EncoderAddEventListener ==
  [input |-> Row("ENCODERINPUT", BglEncoderHandler("input")),
   position |-> Row("ENCODERPOSITION", BglEncoderHandler("position")),
   index |-> Row("ENCODERINDEX", BglEncoderHandler("index"))]

Listeners(c) ==
  CASE c = "manager" -> ManagerAddEventListener
    [] c = "ifkit" -> IfkitAddEventListener
    [] c = "spatial" -> SpatialAddEventListener
    [] c = "servo" -> ServoAddEventListener
    [] c = "advancedservo" -> AdvancedServoAddEventListener
    [] c = "stepper" -> StepperAddEventListener
    [] c = "motorcontrol" -> MotorControlAddEventListener
    [] c = "encoder" -> EncoderAddEventListener

(* The member that bgl_phidget_invoke_callbacks reads for an event type.   *)
Reads(type) ==
  CASE type = "ERROR" -> <<"int", "string">>
    [] type \in {"ATTACH", "DETACH", "SERVERCONNECT", "SERVERDISCONNECT"} -> <<"handle">>
    [] type \in {"INPUTCHANGE", "OUTPUTCHANGE", "SENSORCHANGE", "STEPPERINPUT",
                 "ENCODERINPUT", "ENCODERINDEX"} -> <<"int", "int">>
    [] type = "SPATIALDATA" -> <<"int", "int", "double9">>
    [] type \in {"SERVOPOSITION", "SERVOVELOCITY", "SERVOCURRENT", "STEPPERVELOCITY",
                 "STEPPERCURRENT", "MOTORCONTROLVELOCITY", "MOTORCONTROLCURRENT"}
         -> <<"int", "double">>
    [] type = "STEPPERPOSITION" -> <<"int", "longlong">>
    [] type = "ENCODERPOSITION" -> <<"int", "int", "int">>

-----------------------------------------------------------------------------
(* phidget-add-event-listener!: bgl_add_handler under the mutex, and the   *)
(* registration in the C library, which replaces the listener there.  The  *)
(* array of listeners comes from the collector, yet a full one is freed.   *)
BglAddHandler(event) ==
  /\ lib = "phidget" /\ mutex \in {Nobody, Service}
  /\ mutex = Service => service.at = "calling"
  /\ IF Len(handlers) = MaxHandlers THEN freed' = TRUE /\ UNCHANGED <<handlers, slot>>
     ELSE /\ handlers' = Append(handlers, Listeners(class)[event].type)
          /\ slot' = OrElse([e \in {event} |-> Len(handlers) + 1], slot)
          /\ UNCHANGED freed
  /\ UNCHANGED class /\ UNCHANGED queueVars

(* A C handler is called in a thread of the C library.                     *)
DeviceEvent(f) ==
  /\ lib = "phidget"
  /\ \E event \in DOMAIN slot :
       Emit(f, [handler |-> slot[event], member |-> Listeners(class)[event].member])
  /\ UNCHANGED phidgetVars

(* The procedure of the listener gets the data of the event.               *)
BglPhidgetInvoke ==
  /\ lib = "phidget"
  /\ Return([n |-> service.call.n, sent |-> service.call.data.member,
             heard |-> Reads(handlers[service.call.data.handler])])
  /\ UNCHANGED phidgetVars

PhidgetRaises == lib = "phidget" /\ Raise /\ UNCHANGED phidgetVars
=============================================================================
