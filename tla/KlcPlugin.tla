----------------------------- MODULE KlcPlugin -----------------------------
(***************************************************************************)
(* The OpenRGB plugin: the life of the controller objects it makes.  The   *)
(* plugin makes one for each keyboard it finds and hands it to OpenRGB,    *)
(* which frees all controllers on a rescan without a word; the plugin      *)
(* frees its own when it is unloaded.  It knows which are left from their  *)
(* addresses (Reconcile), and an address is given again once it is free.   *)
(*                                                                         *)
(* Two threads run plugin code: the one that loads and unloads plugins,    *)
(* Gui, and the one that detects devices, Detect.                          *)
(*                                                                         *)
(* External: OpenRGB, hidapi and the keyboards.  A rescan is asked for on  *)
(* Gui while no detection runs, and UnregisterDetectionEndCallback waits   *)
(* for a callback that runs: nothing in the plugin keeps the threads apart.*)
(* OpenRGB's list of controllers has no lock that the plugin could take.   *)
(***************************************************************************)
EXTENDS Naturals, FiniteSets

CONSTANTS
  Keyboards,
  Nodes,         \* the names under which the devices of a keyboard can be opened
  Addresses,     \* where controller objects may be
  Nowhere,       \* the location of a controller of another device
  Nothing,       \* what a handle drives whose keyboard has been pulled out
  MaxOthers      \* bound: controllers of other devices at a time

Gui     == "gui"
Detect  == "detect"
Threads == {Gui, Detect}

\* A path: the lighting of a keyboard is on its interface 0.
Paths   == Nodes \X {0, 1}
Entries == [path : Paths, usage : {"lighting", "other", "unknown"}]
Objects == [owner : {"plugin", "other"}, location : Paths \union {Nowhere},
            drives : Keyboards \union {Nothing}]

ASSUME KlcPluginAssumption ==
  /\ IsFiniteSet(Keyboards) /\ IsFiniteSet(Addresses)
  /\ Nowhere \notin Paths /\ Nothing \notin Keyboards
  /\ MaxOthers \in Nat

VARIABLES
  loaded,      \* OpenRGB has loaded the plugin, which has its resource_manager
  controllers, \* the addresses of the controllers the plugin tracks (a vector,
               \*   whose order nothing depends on)
  callback,    \* DetectionEndFunction is registered
  doomed,      \* the address that Unload has unregistered and will delete next
  live,        \* OpenRGB's list of controllers
  heap,        \* the controller objects: by address, those that were not freed
  node,        \* of each keyboard that is plugged in: its node
  usages,      \* hidapi was built to report the usages of collections
  pc,          \* of each thread: where it is
  current,     \* of each thread: the rest of its hid_device_info list
  due,         \* (history) keyboards that an Enumerate that began since they were
               \*   plugged in is to show, and whose device has opened
  raced        \* (history) a Reconcile has met a change of OpenRGB's list

plugin  == <<loaded, controllers, callback, doomed>>
openrgb == <<live, heap>>
usb     == <<node, usages>>
vars == <<plugin, openrgb, usb, pc, current, due, raced>>

plugged == DOMAIN node

Init ==
  /\ loaded = FALSE /\ controllers = {} /\ callback = FALSE /\ doomed = {}
  /\ live = {} /\ heap = <<>>
  /\ node \in UNION {[K -> Nodes] : K \in SUBSET Keyboards}
  /\ \A j, k \in plugged : node[j] = node[k] => j = k
  /\ usages \in BOOLEAN
  /\ pc = [t \in Threads |-> "idle"]
  /\ current = [t \in Threads |-> {}]
  /\ due = {} /\ raced = FALSE

Alive == DOMAIN heap
Own   == {a \in Alive : heap[a].owner = "plugin"}

Goto(t, l) == pc' = [pc EXCEPT ![t] = l]
Without(f, A) == [a \in DOMAIN f \ A |-> f[a]]
With(f, a, o) == [b \in DOMAIN f \union {a} |-> IF b = a THEN o ELSE f[b]]
-----------------------------------------------------------------------------
(* Enumerate, on either thread.                                            *)

\* What hid_enumerate lists of a keyboard: a collection each, or, where usages are
\* not reported, an interface each.
Listed(k) ==
  IF usages
    THEN {[path |-> <<node[k], 0>>, usage |-> "lighting"],
          [path |-> <<node[k], 0>>, usage |-> "other"],
          [path |-> <<node[k], 1>>, usage |-> "other"]}
    ELSE {[path |-> <<node[k], i>>, usage |-> "unknown"] : i \in {0, 1}}

InterfaceMatch(e) ==
  IF e.usage = "unknown" THEN e.path[2] = 0 ELSE e.usage = "lighting"

\* Mutant: nothing is dropped.
ReconciledNot == controllers

\* Reconcile: what is still at an address that OpenRGB has a controller at.
Reconciled == controllers \intersect live

\* Reconcile and hid_enumerate.
Enumerate(t) ==
  /\ controllers' = Reconciled
  /\ current' = [current EXCEPT ![t] = UNION {Listed(k) : k \in plugged}]

\* Mutant: every match is taken for new.
NeverTracked(path) == FALSE

AlreadyTracked(path) ==
  \E a \in controllers \intersect Alive : heap[a].location = path

\* What hid_open_path(path) reaches: the keyboard that has this node now.
IsAt(k, path) == k \in plugged /\ path = <<node[k], 0>>

\* An entry of no interest.
SkipEntry(t) ==
  /\ pc[t] = "enumerate"
  /\ \E e \in current[t] :
       /\ ~InterfaceMatch(e) \/ AlreadyTracked(e.path)
       /\ current' = [current EXCEPT ![t] = @ \ {e}]
  /\ UNCHANGED <<plugin, openrgb, usb, pc, due, raced>>

\* hid_open_path fails: the keyboard is gone, or the node may not be opened.
OpenFails(t) ==
  /\ pc[t] = "enumerate"
  /\ \E e \in current[t] :
       /\ InterfaceMatch(e) /\ ~AlreadyTracked(e.path)
       /\ current' = [current EXCEPT ![t] = @ \ {e}]
       /\ due' = {k \in due : ~IsAt(k, e.path)}
  /\ UNCHANGED <<plugin, openrgb, usb, pc, raced>>

\* Mutant: registered and not tracked.
AddUntracked(t) ==
  /\ pc[t] = "enumerate"
  /\ \E e \in current[t], a \in Addresses \ Alive, k \in plugged :
       /\ InterfaceMatch(e) /\ ~AlreadyTracked(e.path)
       /\ IsAt(k, e.path)
       /\ heap' = With(heap, a, [owner |-> "plugin", location |-> e.path, drives |-> k])
       /\ live' = live \union {a}
       /\ current' = [current EXCEPT ![t] = @ \ {e}]
  /\ UNCHANGED <<plugin, usb, pc, due, raced>>

\* A new controller, which owns the handle, is registered and tracked.
AddController(t) ==
  /\ pc[t] = "enumerate"
  /\ \E e \in current[t], a \in Addresses \ Alive, k \in plugged :
       /\ InterfaceMatch(e) /\ ~AlreadyTracked(e.path)
       /\ IsAt(k, e.path)
       /\ heap' = With(heap, a, [owner |-> "plugin", location |-> e.path, drives |-> k])
       /\ live' = live \union {a}
       /\ controllers' = controllers \union {a}
       /\ current' = [current EXCEPT ![t] = @ \ {e}]
  /\ UNCHANGED <<loaded, callback, doomed, usb, pc, due, raced>>
-----------------------------------------------------------------------------
(* Load and Unload, on Gui.                                                *)

\* The keyboards that are to show up; nothing is expected after a race.
Expected == IF raced THEN {} ELSE plugged

Load ==
  /\ pc[Gui] = "idle" /\ ~loaded
  /\ loaded' = TRUE
  /\ Enumerate(Gui)
  /\ Goto(Gui, "enumerate")
  /\ due' = Expected
  /\ UNCHANGED <<callback, doomed, openrgb, usb, raced>>

\* Mutant: nothing is registered.
RegisterNothing ==
  /\ pc[Gui] = "enumerate" /\ current[Gui] = {}
  /\ Goto(Gui, "idle")
  /\ UNCHANGED <<plugin, openrgb, usb, current, due, raced>>

RegisterCallback ==
  /\ pc[Gui] = "enumerate" /\ current[Gui] = {}
  /\ callback' = TRUE
  /\ Goto(Gui, "idle")
  /\ UNCHANGED <<loaded, controllers, doomed, openrgb, usb, current, due, raced>>

\* UnregisterDetectionEndCallback, and then Reconcile.  While a detection is on,
\* OpenRGB may be adding to the list that Reconcile goes through: the vector may be
\* moved beneath it, and any address be missed, or found in memory that is stale.
Unload ==
  /\ pc[Gui] = "idle" /\ loaded
  /\ pc[Detect] # "enumerate"
  /\ loaded' = FALSE
  /\ callback' = FALSE
  /\ \/ controllers' = Reconciled /\ UNCHANGED raced
     \/ /\ pc[Detect] = "detect"
        /\ controllers' \in SUBSET controllers
        /\ raced' = TRUE
  /\ Goto(Gui, "unregister")
  /\ due' = {}
  /\ UNCHANGED <<doomed, openrgb, usb, current>>

\* The loop of Unload.  controllers keeps its addresses until clear(); here one
\* goes as soon as its object is deleted, so that the rest of the loop is left.
UnregisterController ==
  /\ pc[Gui] = "unregister"
  /\ \E a \in controllers : doomed' = {a} /\ live' = live \ {a}
  /\ Goto(Gui, "delete")
  /\ UNCHANGED <<loaded, controllers, callback, heap, usb, current, due, raced>>

DeleteController ==
  /\ pc[Gui] = "delete"
  /\ heap' = Without(heap, doomed)
  /\ controllers' = controllers \ doomed
  /\ doomed' = {}
  /\ Goto(Gui, "unregister")
  /\ UNCHANGED <<loaded, callback, live, usb, current, due, raced>>

Unloaded ==
  /\ pc[Gui] = "unregister" /\ controllers = {}
  /\ Goto(Gui, "idle")
  /\ UNCHANGED <<plugin, openrgb, usb, current, due, raced>>
-----------------------------------------------------------------------------
(* OpenRGB.                                                                *)

\* A rescan frees all controllers and starts the detection.  The first one finds
\* no controllers, and OpenRGB may still be at it when it loads the plugin.
Rescan ==
  /\ pc[Gui] = "idle" /\ pc[Detect] = "idle"
  /\ heap' = Without(heap, live)
  /\ live' = {}
  /\ Goto(Detect, "detect")
  /\ due' = IF loaded THEN Expected ELSE {}
  /\ UNCHANGED <<plugin, usb, current, raced>>

\* A detector of OpenRGB's own finds a device.
DetectOther ==
  /\ pc[Detect] = "detect"
  /\ Cardinality(Alive \ Own) < MaxOthers
  /\ \E a \in Addresses \ Alive :
       /\ heap' = With(heap, a, [owner |-> "other", location |-> Nowhere, drives |-> Nothing])
       /\ live' = live \union {a}
  /\ UNCHANGED <<plugin, usb, pc, current, due, raced>>

\* The detection ends: DetectionEndFunction, where it is registered.
DetectionEnd ==
  /\ pc[Detect] = "detect"
  /\ IF callback
       THEN Enumerate(Detect) /\ Goto(Detect, "enumerate")
       ELSE UNCHANGED <<controllers, current>> /\ Goto(Detect, "idle")
  /\ UNCHANGED <<loaded, callback, doomed, openrgb, usb, due, raced>>

\* Mutant: it returns at the first keyboard.
ReturnsEarly ==
  /\ pc[Detect] = "enumerate"
  /\ Goto(Detect, "idle")
  /\ UNCHANGED <<plugin, openrgb, usb, current, due, raced>>

CallbackReturns ==
  /\ pc[Detect] = "enumerate" /\ current[Detect] = {}
  /\ Goto(Detect, "idle")
  /\ UNCHANGED <<plugin, openrgb, usb, current, due, raced>>
-----------------------------------------------------------------------------
(* The keyboards.                                                          *)

\* Handles of a keyboard that is pulled out drive nothing any more.
PlugOut(k) ==
  /\ k \in plugged
  /\ node' = Without(node, {k})
  /\ heap' = [a \in Alive |->
                IF heap[a].drives = k THEN [heap[a] EXCEPT !.drives = Nothing] ELSE heap[a]]
  /\ due' = due \ {k}
  /\ UNCHANGED <<plugin, live, usages, pc, current, raced>>

\* It comes back under any node that is free.  (hidraw gives none away that an old
\* handle holds open; libusb does.)
PlugIn(k) ==
  /\ k \notin plugged
  /\ \E n \in Nodes \ {node[j] : j \in plugged} : node' = With(node, k, n)
  /\ UNCHANGED <<plugin, openrgb, usages, pc, current, due, raced>>

EnumerateStep(t) == SkipEntry(t) \/ OpenFails(t) \/ AddController(t)

GuiStep ==
  \/ EnumerateStep(Gui)
  \/ RegisterCallback
  \/ UnregisterController
  \/ DeleteController
  \/ Unloaded

DetectStep ==
  \/ EnumerateStep(Detect)
  \/ DetectionEnd
  \/ CallbackReturns

Next ==
  \/ GuiStep
  \/ DetectStep
  \/ Load
  \/ Unload
  \/ Rescan
  \/ DetectOther
  \/ \E k \in Keyboards : PlugOut(k) \/ PlugIn(k)

Spec == Init /\ [][Next]_vars

\* Both threads run on: a load, an unload and a detection come to their ends.
Fairness == WF_vars(GuiStep) /\ WF_vars(DetectStep)

FairSpec == Spec /\ Fairness

-----------------------------------------------------------------------------
(* Properties.                                                             *)

TypeOK ==
  /\ loaded \in BOOLEAN /\ callback \in BOOLEAN
  /\ controllers \subseteq Addresses /\ doomed \subseteq controllers
  /\ live \subseteq Addresses
  /\ Alive \subseteq Addresses /\ heap \in [Alive -> Objects]
  /\ plugged \subseteq Keyboards /\ node \in [plugged -> Nodes] /\ usages \in BOOLEAN
  /\ pc \in [Threads -> {"idle", "enumerate", "unregister", "delete", "detect"}]
  /\ current \in [Threads -> SUBSET Entries]
  /\ \A t \in Threads : current[t] # {} => pc[t] = "enumerate"
  /\ due \subseteq plugged /\ raced \in BOOLEAN

\* "Reconcile() drops any it already freed so we never double-free": what OpenRGB
\* lists was not freed, and neither was anything that the plugin is about to ask
\* for its location or to delete, although OpenRGB frees without telling; unless a
\* Reconcile has raced OpenRGB's own changes of its list.
NobodyUsesFreed ==
  ~raced =>
    /\ live \subseteq Alive
    /\ \A t \in Threads :
         pc[t] \in {"enumerate", "unregister", "delete"} => controllers \subseteq Alive

\* No two controllers draw on one keyboard, through loads, rescans and detections
\* that end beside a load, and whatever nodes the keyboards come back under: where a
\* keyboard has a second controller, the first has lost its device.
OneControllerPerKeyboard ==
  ~raced =>
    \A a, b \in Own :
      heap[a].drives = heap[b].drives /\ heap[a].drives # Nothing => a = b

\* Once Unload is back, no controller of the plugin's and so no open handle is
\* left, and none can come: plugin code may go away.
NothingLeftAfterUnload ==
  ~loaded /\ pc[Gui] = "idle" /\ ~raced => Own = {} /\ ~callback

Shown(k) == \E a \in live \intersect Own : heap[a].drives = k

\* "... so we re-add our controller after a user-triggered rescan": a keyboard
\* that is there when the plugin is loaded or OpenRGB rescans is shown again,
\* unless it is pulled out, cannot be opened, or the plugin is unloaded.
KeyboardComesBack ==
  \A k \in Keyboards : k \in due ~> k \notin due \/ Shown(k)
=============================================================================
