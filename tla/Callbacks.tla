------------------------------ MODULE Callbacks -------------------------------
(***************************************************************************)
(* The three bindings with a service thread, and the port elements of      *)
(* gstreamer: one library at a time, with the threads of that library, the *)
(* service thread and the program.                                         *)
(***************************************************************************)
EXTENDS Phidget, Gst, Avahi

CONSTANT Libs   \* the libraries to check

(* The array has a first length, there are threads of the C library, and   *)
(* the classes are those that have a table of listeners.                   *)
CallbackConstants ==
  /\ FirstLength \in Nat \ {0} /\ MaxEvents \in Nat /\ Nobody # Service /\ Foreign # {}
  /\ PortSize \in Nat /\ SyswriteMax \in Nat
  /\ Classes \subseteq {"manager", "ifkit", "spatial", "servo", "advancedservo", "stepper",
                        "motorcontrol", "encoder"}

callbackVars == <<queueVars, phidgetVars, gstVars, avahiVars>>

CallbacksInit ==
  /\ lib \in Libs /\ InitQueue
  /\ \E c \in Classes : InitPhidget(c) /\ (lib # "phidget" => c = "encoder")
  /\ \E t \in BOOLEAN : InitGst(t) /\ (lib # "gst" => ~ t)
  /\ \E t \in BOOLEAN, k \in Kinds \cup {"timeout"} : InitAvahi(t, k) /\ (lib # "avahi" => ~ t /\ k = "timeout")

Alive == ~ freed /\ ~ twice

(* A service thread exists in the multi-threaded cases only: the messages  *)
(* of a bus stay in the array when gstreamer uses Bigloo threads.          *)
HasService ==
  /\ Alive
  /\ (lib = "phidget") \/ (lib = "gst" /\ ~ useThreads) \/ (lib = "avahi" /\ threaded)

PhidgetNext ==
  \/ \E event \in DOMAIN Listeners(class) : BglAddHandler(event)
  \/ \E f \in Foreign : DeviceEvent(f)

GstNext ==
  \/ \E f \in Foreign : BusSyncHandler(f) \/ \E n \in {0, 4, 5} : ClosureMarshal(f, n)
  \/ NestedSignal
  \/ \E p \in Ports : \E opened \in BOOLEAN : SrcSetPort(p, opened)
  \/ \E offset \in 0 .. 2, len \in 1 .. 2 : SrcCreate(offset, len)
  \/ SrcFinalize
  \/ \E p \in {"out", "other"} : SinkSetPort(p)
  \/ \E uri, close \in BOOLEAN : SinkSet(uri, close)
  \/ SinkStart \/ SinkRender \/ SinkError \/ SinkStop \/ \E n \in 0 .. 3 : SinkBuffer(n)

AvahiObject(k) ==
  CASE k = "client" ->
         ClientCallback \/ ClientClose \/ \E ok \in BOOLEAN : ClientNew(ok)
    [] k = "group" ->
         EntryGroupCallback \/ EntryGroupClose \/ \E ok \in BOOLEAN : EntryGroupNew(ok)
    [] k = "browser" ->
         BrowserCallback \/ BrowserClose \/ \E ok \in BOOLEAN : BrowserNew(ok)
    [] k = "typebrowser" ->
         TypeBrowserCallback \/ TypeBrowserClose \/ \E ok \in BOOLEAN : TypeBrowserNew(ok)
    [] k = "domainbrowser" ->
         DomainBrowserCallback \/ DomainBrowserClose \/ \E ok \in BOOLEAN : DomainBrowserNew(ok)
    [] k = "resolver" ->
         ResolverCallback \/ ResolverClose \/ \E ok \in BOOLEAN : ResolverNew(ok)

AvahiNext ==
  \/ object # "timeout" /\ \E k \in {"client", object} : AvahiObject(k)
  \/ object = "timeout" /\ \E p \in Timeouts : PollTimeout(p) \/ TimeoutCallback(p)

ServiceStep == HasService /\ (Wait \/ Woken \/ InvokeLast \/ InvokeEnd)
                          /\ UNCHANGED <<phidgetVars, gstVars, avahiVars>>
ServiceCalls ==
  \/ (BglPhidgetInvoke \/ PhidgetRaises) /\ UNCHANGED <<gstVars, avahiVars>>
  \/ (GstInvoke \/ GstRaises) /\ UNCHANGED <<phidgetVars, avahiVars>>
  \/ (InvokeRead \/ InvokeCopy \/ ApplyLast \/ ApplyEnd \/ AvahiInvoke \/ AvahiRaises)
       /\ UNCHANGED <<phidgetVars, gstVars>>

QueueNext ==
  /\ Alive
  /\ (HasService /\ SpuriousWakeup) \/ \E f \in Foreign : Register(f)
  /\ UNCHANGED <<phidgetVars, gstVars, avahiVars>>

Steps ==
  \/ PhidgetNext /\ UNCHANGED <<gstVars, avahiVars>>
  \/ GstNext /\ UNCHANGED <<phidgetVars, avahiVars>>
  \/ AvahiNext /\ UNCHANGED <<phidgetVars, gstVars>>
  \/ ServiceCalls \/ QueueNext \/ ServiceStep

(* A program that gave free() a wrong pointer has no behaviour to rely on. *)
CallbacksNext == Alive /\ Steps

(* The service thread is scheduled, gets the mutex when it is given back   *)
(* again and again, and the procedures return or raise.                    *)
ServiceFairness == SF_callbackVars(ServiceStep) /\ WF_callbackVars(Alive /\ ServiceCalls)

CallbacksSpec == CallbacksInit /\ [][CallbacksNext]_callbackVars /\ ServiceFairness
-----------------------------------------------------------------------------
(* Port elements of gstreamer move every byte once, and procedures of      *)
(* avahi timeouts are kept from the collector.                             *)
ElementsExact == PortElements /\ TimeoutKept

(* The callbacks that a service thread that is awake will call: those that *)
(* it has taken, and those of the array, which avahi reads once.           *)
InHand(n) ==
  \/ n \in Numbers(service.batch) \cup {service.call.n}
  \/ n \in Numbers(callbacks) /\ service.at \in {"woken", "unlocked"}
  \/ n \in Numbers(callbacks) /\ lib # "avahi" /\ service.at \in {"invoking", "calling"}
  \/ service.at = "indexed" /\ n \in Numbers(SubSeq(callbacks, 1, service.index))

(* The service thread does not go back to sleep over a callback that it    *)
(* found when it was woken, unless a procedure raises or the program       *)
(* crashes ...                                                             *)
NotForgotten ==
  \A n \in 1 .. MaxEvents :
    InHand(n) => InHand(n)' \/ (n \in Numbers(got) \/ service.at = "dead" \/ ~ Alive)'

(* ... and gets to the call in the end.                                    *)
Heard ==
  /\ [][NotForgotten]_callbackVars
  /\ \A n \in 1 .. MaxEvents : []<>(~ InHand(n) \/ ~ Alive)
=============================================================================
