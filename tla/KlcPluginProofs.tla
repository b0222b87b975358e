-------------------------- MODULE KlcPluginProofs --------------------------
(* Proofs about KlcPlugin, for any keyboards, nodes and addresses and any  *)
(* number of other controllers.                                            *)
EXTENDS KlcPlugin, TLAPS

\* Where the threads may be, and what OpenRGB makes of it: plugin code runs on
\* one of them at a time, and on Detect only while the callback is registered.
ThreadsInv ==
  /\ pc \in [Threads -> {"idle", "enumerate", "unregister", "delete", "detect"}]
  /\ pc[Gui] \in {"idle", "enumerate", "unregister", "delete"}
  /\ pc[Detect] \in {"idle", "detect", "enumerate"}
  /\ loaded \in BOOLEAN /\ callback \in BOOLEAN /\ raced \in BOOLEAN
  /\ callback => loaded
  /\ pc[Gui] = "enumerate" => loaded /\ ~callback
  /\ pc[Gui] \in {"unregister", "delete"} => ~loaded
  /\ pc[Detect] = "enumerate" => callback /\ pc[Gui] = "idle"

\* Each keyboard that is plugged in has a node of its own.
PlugInv ==
  /\ plugged \subseteq Keyboards /\ node \in [plugged -> Nodes]
  /\ \A j, k \in plugged : node[j] = node[k] => j = k
  /\ usages \in BOOLEAN /\ due \subseteq plugged

\* What a thread has left of its list are entries of keyboards, whose lighting
\* is on interface 0.
ListInv ==
  /\ current \in [Threads -> SUBSET Entries]
  /\ \A t \in Threads :
       /\ current[t] # {} => pc[t] = "enumerate"
       /\ \A e \in current[t] : InterfaceMatch(e) => e.path[2] = 0

HeapInv ==
  /\ Alive \subseteq Addresses /\ heap \in [Alive -> Objects]
  /\ controllers \subseteq Addresses /\ live \subseteq Addresses
  /\ doomed \subseteq controllers
  /\ pc[Gui] # "delete" => doomed = {}

\* The plugin's objects are at interface 0, no two at one path, and what one drives
\* is the keyboard that has the node of its path.
ObjectsInv ==
  /\ \A a \in Own :
       /\ heap[a].location \in Paths /\ heap[a].location[2] = 0
       /\ heap[a].drives # Nothing =>
            heap[a].drives \in plugged /\ heap[a].location = <<node[heap[a].drives], 0>>
  /\ \A a, b \in Own : heap[a].location = heap[b].location => a = b

\* The plugin tracks all its objects, and OpenRGB lists them but for the one that
\* Unload is at.  While plugin code runs, what it tracks is listed, and alive.
TrackingInv ==
  /\ live \subseteq Alive
  /\ Own \subseteq controllers
  /\ Own \subseteq live \union doomed
  /\ doomed \subseteq Alive \ live
  /\ pc[Gui] \in {"enumerate", "unregister", "delete"} => controllers \subseteq live \union doomed
  /\ pc[Detect] = "enumerate" => controllers \subseteq live
  /\ ~loaded /\ pc[Gui] = "idle" => controllers = {}

\* Both rest on Reconcile, and so on there having been no race.
SafeInv == ~raced => ObjectsInv /\ TrackingInv

IInv == ThreadsInv /\ PlugInv /\ ListInv /\ HeapInv /\ SafeInv

-----------------------------------------------------------------------------
(* The heap, the list and the nodes.                                       *)

LEMMA ObjectAdded ==
  ASSUME NEW a, NEW o \in Objects, a \notin Alive,
         heap \in [Alive -> Objects], heap' = With(heap, a, o)
  PROVE  /\ Alive' = Alive \union {a} /\ heap' \in [Alive' -> Objects]
         /\ heap'[a] = o /\ \A b \in Alive : heap'[b] = heap[b]
         /\ Own' = IF o.owner = "plugin" THEN Own \union {a} ELSE Own
<1>1. Alive' = Alive \union {a}
  BY DEF Alive, With
<1>2. heap'[a] = o /\ \A b \in Alive : heap'[b] = heap[b]
  BY DEF Alive, With
<1>3. heap' \in [Alive' -> Objects]
  BY <1>1 DEF Alive, With
<1>4. Own' = IF o.owner = "plugin" THEN Own \union {a} ELSE Own
  BY <1>1, <1>2 DEF Own
<1> QED
  BY <1>1, <1>2, <1>3, <1>4

LEMMA ObjectsFreed ==
  ASSUME NEW A, heap \in [Alive -> Objects], heap' = Without(heap, A)
  PROVE  /\ Alive' = Alive \ A /\ heap' \in [Alive' -> Objects]
         /\ \A b \in Alive \ A : heap'[b] = heap[b]
         /\ Own' = Own \ A
<1>1. Alive' = Alive \ A
  BY DEF Alive, Without
<1>2. \A b \in Alive \ A : heap'[b] = heap[b]
  BY DEF Alive, Without
<1>3. heap' \in [Alive' -> Objects]
  BY <1>1 DEF Alive, Without
<1>4. Own' = Own \ A
  BY <1>1, <1>2 DEF Own
<1> QED
  BY <1>1, <1>2, <1>3, <1>4

LEMMA HeapSame == heap' = heap => Alive' = Alive /\ Own' = Own
BY DEF Alive, Own

\* Of what a step of plugin code or of OpenRGB does not change.
LEMMA PlugSame ==
  ASSUME PlugInv, UNCHANGED usb, due' \subseteq plugged
  PROVE  PlugInv' /\ plugged' = plugged /\ node' = node
<1>1. node' = node /\ plugged' = plugged /\ usages' = usages
  BY DEF usb, plugged
<1> QED
  BY <1>1 DEF PlugInv

\* While no thread is at its list, nothing is left of it.
LEMMA ListSame ==
  ASSUME ListInv, UNCHANGED current, \A t \in Threads : current[t] # {} => pc'[t] = "enumerate"
  PROVE  ListInv'
BY DEF ListInv, InterfaceMatch

\* An entry that hid_enumerate lists, and whether it is of interest.
LEMMA ListedEntries ==
  ASSUME PlugInv, NEW k \in plugged
  PROVE  /\ Listed(k) \subseteq Entries
         /\ \A e \in Listed(k) : InterfaceMatch(e) => e.path[2] = 0
<1>1. <<node[k], 0>> \in Paths /\ <<node[k], 1>> \in Paths
  BY DEF Paths, PlugInv
<1>2. Listed(k) \subseteq Entries
  BY <1>1 DEF Listed, Entries
<1>3. \A e \in Listed(k) : InterfaceMatch(e) => e.path[2] = 0
  BY DEF Listed, InterfaceMatch
<1> QED
  BY <1>2, <1>3

-----------------------------------------------------------------------------

LEMMA InitInv == Init => IInv
<1> SUFFICES ASSUME Init PROVE IInv
  OBVIOUS
<1>1. Alive = {} /\ Own = {} /\ heap \in [Alive -> Objects]
  BY DEF Init, Alive, Own
<1>2. ThreadsInv /\ ListInv
  BY DEF Init, ThreadsInv, ListInv, Threads, Gui, Detect
<1>3. PlugInv
  <2>1. PICK K \in SUBSET Keyboards : node \in [K -> Nodes]
    BY DEF Init
  <2>2. plugged = K
    BY <2>1 DEF plugged
  <2> QED
    BY <2>1, <2>2 DEF Init, PlugInv
<1>4. HeapInv
  BY <1>1 DEF Init, HeapInv
<1>5. SafeInv
  BY <1>1 DEF Init, SafeInv, ObjectsInv, TrackingInv
<1> QED
  BY <1>2, <1>3, <1>4, <1>5 DEF IInv

\* In the loop of Enumerate the plugin tracks what is listed and alive only, and
\* all its objects.
LEMMA WhileListing ==
  ASSUME IInv, ~raced, NEW t \in Threads, pc[t] = "enumerate"
  PROVE  /\ controllers \subseteq live /\ live \subseteq Alive /\ Own \subseteq controllers
         /\ doomed = {}
BY DEF IInv, SafeInv, TrackingInv, HeapInv, ThreadsInv, Threads, Gui, Detect

LEMMA ListKeeps ==
  ASSUME IInv, NEW t \in Threads, SkipEntry(t) \/ OpenFails(t) PROVE IInv'
<1>1. /\ UNCHANGED <<plugin, openrgb, usb, pc, raced>> /\ due' \subseteq due
      /\ current' \in [Threads -> SUBSET Entries]
      /\ \A s \in Threads : current'[s] \subseteq current[s]
  BY DEF SkipEntry, OpenFails, IInv, ListInv
<1>2. Alive' = Alive /\ Own' = Own /\ heap' = heap
  BY <1>1, HeapSame DEF openrgb
<1>3. PlugInv' /\ plugged' = plugged /\ node' = node
  BY <1>1, PlugSame DEF IInv, PlugInv
<1>4. ThreadsInv' /\ HeapInv' /\ SafeInv'
  BY <1>1, <1>2, <1>3
     DEF IInv, ThreadsInv, HeapInv, SafeInv, ObjectsInv, TrackingInv, plugin, openrgb
<1>5. ListInv'
  BY <1>1 DEF IInv, ListInv, InterfaceMatch
<1> QED
  BY <1>3, <1>4, <1>5 DEF IInv

LEMMA AddControllerKeeps == ASSUME IInv, NEW t \in Threads, AddController(t) PROVE IInv'
<1>1. PICK e \in current[t], a \in Addresses \ Alive, k \in plugged :
        /\ InterfaceMatch(e) /\ ~AlreadyTracked(e.path)
        /\ IsAt(k, e.path)
        /\ heap' = With(heap, a, [owner |-> "plugin", location |-> e.path, drives |-> k])
        /\ live' = live \union {a}
        /\ controllers' = controllers \union {a}
        /\ current' = [current EXCEPT ![t] = @ \ {e}]
  BY DEF AddController
<1>2. pc[t] = "enumerate" /\ UNCHANGED <<loaded, callback, doomed, usb, pc, due, raced>>
  BY DEF AddController
<1>3. PlugInv' /\ plugged' = plugged /\ node' = node
  BY <1>2, PlugSame DEF IInv, PlugInv
<1> DEFINE o == [owner |-> "plugin", location |-> e.path, drives |-> k]
<1>4. e.path = <<node[k], 0>> /\ e.path \in Paths
  BY <1>1 DEF IsAt, IInv, PlugInv, Paths
<1>5. k \in Keyboards
  BY <1>1 DEF IInv, PlugInv
<1>6. o \in Objects /\ o.owner = "plugin" /\ o.location = e.path /\ o.drives = k
  BY <1>4, <1>5 DEF Objects
<1>7. /\ Alive' = Alive \union {a} /\ heap' \in [Alive' -> Objects]
      /\ heap'[a] = o /\ \A b \in Alive : heap'[b] = heap[b]
      /\ Own' = Own \union {a}
  <2> HIDE DEF o
  <2>1. heap' = With(heap, a, o)
    BY <1>1 DEF o
  <2> QED
    BY <1>1, <1>6, <2>1, ObjectAdded DEF IInv, HeapInv
<1> HIDE DEF o
<1>8. ThreadsInv' /\ HeapInv'
  BY <1>1, <1>2, <1>7 DEF IInv, ThreadsInv, HeapInv
<1>9. ListInv'
  BY <1>1, <1>2 DEF IInv, ListInv, InterfaceMatch
<1>10. ASSUME ~raced' PROVE ObjectsInv' /\ TrackingInv'
  <2>1. ~raced /\ ObjectsInv /\ TrackingInv
    BY <1>2, <1>10 DEF IInv, SafeInv
  <2>2. /\ controllers \subseteq live /\ live \subseteq Alive /\ Own \subseteq controllers
        /\ doomed = {}
    BY <1>2, <2>1, WhileListing
  <2>3. \A b \in Own : heap[b].location # e.path
    BY <1>1, <2>2 DEF AlreadyTracked
  <2>4. a \notin Own /\ Own \subseteq Alive
    BY <1>1 DEF Own
  <2>5. \A b \in Own' :
          /\ heap'[b].location \in Paths /\ heap'[b].location[2] = 0
          /\ heap'[b].drives # Nothing =>
               heap'[b].drives \in plugged /\ heap'[b].location = <<node[heap'[b].drives], 0>>
    BY <1>1, <1>4, <1>6, <1>7, <2>1, <2>4 DEF ObjectsInv
  <2>6. \A b, c \in Own' : heap'[b].location = heap'[c].location => b = c
    BY <1>6, <1>7, <2>1, <2>3, <2>4 DEF ObjectsInv
  <2>7. ObjectsInv'
    BY <1>3, <2>5, <2>6 DEF ObjectsInv
  <2>8. TrackingInv'
    BY <1>1, <1>2, <1>7, <2>1, <2>2 DEF IInv, TrackingInv, ThreadsInv, Threads, Gui, Detect
  <2> QED
    BY <2>7, <2>8
<1> QED
  BY <1>3, <1>8, <1>9, <1>10 DEF IInv, SafeInv

\* hid_enumerate, where the thread comes to the loop.
LEMMA EnumerateLists ==
  ASSUME IInv, NEW t \in Threads, Enumerate(t), pc' = [pc EXCEPT ![t] = "enumerate"]
  PROVE  ListInv'
<1> DEFINE all == UNION {Listed(k) : k \in plugged}
<1>1. all \subseteq Entries /\ \A e \in all : InterfaceMatch(e) => e.path[2] = 0
  <2>1. \A e \in all : \E k \in plugged : e \in Listed(k)
    OBVIOUS
  <2> HIDE DEF all
  <2> QED
    BY <2>1, ListedEntries DEF IInv
<1> HIDE DEF all
<1>2. current' = [current EXCEPT ![t] = all]
  BY DEF Enumerate, all
<1> QED
  BY <1>1, <1>2 DEF IInv, ListInv, ThreadsInv, InterfaceMatch

LEMMA LoadKeeps == ASSUME IInv, Load PROVE IInv'
<1>1. /\ pc[Gui] = "idle" /\ ~loaded /\ loaded' = TRUE
      /\ controllers' = controllers \intersect live
      /\ pc' = [pc EXCEPT ![Gui] = "enumerate"] /\ due' \in {{}, plugged}
      /\ UNCHANGED <<callback, doomed, openrgb, usb, raced>>
  BY DEF Load, Enumerate, Reconciled, Goto, Expected
<1>2. Alive' = Alive /\ Own' = Own /\ heap' = heap
  BY <1>1, HeapSame DEF openrgb
<1>3. PlugInv' /\ plugged' = plugged /\ node' = node
  BY <1>1, PlugSame DEF IInv, PlugInv
<1>4. ThreadsInv'
  BY <1>1 DEF IInv, ThreadsInv, Threads, Gui, Detect
<1>5. ListInv'
  BY <1>1, EnumerateLists DEF Load, Threads
<1>6. HeapInv'
  BY <1>1, <1>2, <1>4 DEF IInv, HeapInv, ThreadsInv, openrgb, Threads, Gui, Detect
<1>7. ASSUME ~raced' PROVE ObjectsInv' /\ TrackingInv'
  <2>1. ObjectsInv /\ TrackingInv
    BY <1>1, <1>7 DEF IInv, SafeInv
  <2>2. ObjectsInv'
    BY <1>2, <1>3, <2>1 DEF ObjectsInv
  <2>3. TrackingInv'
    BY <1>1, <1>2, <1>4, <2>1
       DEF IInv, TrackingInv, HeapInv, ThreadsInv, openrgb, Threads, Gui, Detect
  <2> QED
    BY <2>2, <2>3
<1> QED
  BY <1>3, <1>4, <1>5, <1>6, <1>7 DEF IInv, SafeInv

LEMMA DetectionEndKeeps == ASSUME IInv, DetectionEnd PROVE IInv'
<1>1. pc[Detect] = "detect" /\ UNCHANGED <<loaded, callback, doomed, openrgb, usb, due, raced>>
  BY DEF DetectionEnd
<1>2. Alive' = Alive /\ Own' = Own /\ heap' = heap
  BY <1>1, HeapSame DEF openrgb
<1>3. PlugInv' /\ plugged' = plugged /\ node' = node
  BY <1>1, PlugSame DEF IInv, PlugInv
<1>4. ASSUME ~raced' PROVE ObjectsInv' /\ TrackingInv
  BY <1>1, <1>2, <1>3, <1>4 DEF IInv, SafeInv, ObjectsInv
<1>5. CASE callback
  <2>1. /\ Enumerate(Detect) /\ pc' = [pc EXCEPT ![Detect] = "enumerate"]
        /\ controllers' = controllers \intersect live
    BY <1>5 DEF DetectionEnd, Enumerate, Reconciled, Goto
  <2>2. pc[Gui] = "idle"
    BY <1>1, <1>5, <1>4 DEF IInv, ThreadsInv
  <2>3. ThreadsInv'
    BY <1>1, <1>5, <2>1, <2>2 DEF IInv, ThreadsInv, Threads, Gui, Detect
  <2>4. ListInv'
    BY <2>1, EnumerateLists DEF Threads
  <2>5. HeapInv'
    BY <1>1, <1>2, <2>1, <2>2 DEF IInv, HeapInv, ThreadsInv, openrgb, Threads, Gui, Detect
  <2>6. ASSUME ~raced' PROVE TrackingInv'
    <3>1. TrackingInv
      BY <1>4, <2>6
    <3> QED
      BY <1>1, <1>2, <2>1, <2>2, <2>3, <3>1
         DEF IInv, TrackingInv, HeapInv, ThreadsInv, openrgb, Threads, Gui, Detect
  <2> QED
    BY <1>3, <1>4, <2>3, <2>4, <2>5, <2>6 DEF IInv, SafeInv
<1>6. CASE ~callback
  <2>1. UNCHANGED <<controllers, current>> /\ pc' = [pc EXCEPT ![Detect] = "idle"]
    BY <1>6 DEF DetectionEnd, Goto
  <2>2. ThreadsInv'
    BY <1>1, <2>1 DEF IInv, ThreadsInv, Threads, Gui, Detect
  <2>3. ListInv'
    BY <1>1, <2>1, ListSame DEF IInv, ListInv, ThreadsInv, Threads, Gui, Detect
  <2>4. HeapInv'
    BY <1>1, <1>2, <2>1 DEF IInv, HeapInv, ThreadsInv, openrgb, Threads, Gui, Detect
  <2>5. ASSUME ~raced' PROVE TrackingInv'
    BY <1>1, <1>2, <1>4, <2>1, <2>5
       DEF IInv, TrackingInv, ThreadsInv, openrgb, Threads, Gui, Detect
  <2> QED
    BY <1>3, <1>4, <2>2, <2>3, <2>4, <2>5 DEF IInv, SafeInv
<1> QED
  BY <1>5, <1>6

\* The threads leave Enumerate with nothing left of their lists.
LEMMA ReturnKeeps ==
  ASSUME IInv, RegisterCallback \/ CallbackReturns PROVE IInv'
<1>1. PICK t \in Threads : /\ pc[t] = "enumerate" /\ current[t] = {}
                           /\ pc' = [pc EXCEPT ![t] = "idle"]
                           /\ t = Gui => callback'
                           /\ t = Detect => callback' = callback
  BY DEF RegisterCallback, CallbackReturns, Goto, plugin, Threads, Gui, Detect
<1>2. /\ UNCHANGED <<loaded, controllers, doomed, openrgb, usb, current, due, raced>>
      /\ callback' \in {TRUE, callback}
  BY DEF RegisterCallback, CallbackReturns, plugin
<1>3. Alive' = Alive /\ Own' = Own /\ heap' = heap
  BY <1>2, HeapSame DEF openrgb
<1>4. PlugInv' /\ plugged' = plugged /\ node' = node
  BY <1>2, PlugSame DEF IInv, PlugInv
<1>5. ThreadsInv'
  BY <1>1, <1>2 DEF IInv, ThreadsInv, Threads, Gui, Detect
<1>6. ListInv'
  BY <1>1, <1>2, ListSame DEF IInv, ListInv, ThreadsInv
<1>7. HeapInv'
  BY <1>1, <1>2, <1>3 DEF IInv, HeapInv, ThreadsInv, openrgb, Threads, Gui, Detect
<1>8. ASSUME ~raced' PROVE ObjectsInv' /\ TrackingInv'
  <2>1. ObjectsInv /\ TrackingInv
    BY <1>2, <1>8 DEF IInv, SafeInv
  <2>2. ObjectsInv'
    BY <1>3, <1>4, <2>1 DEF ObjectsInv
  <2>3. TrackingInv'
    BY <1>1, <1>2, <1>3, <2>1
       DEF IInv, TrackingInv, ThreadsInv, openrgb, Threads, Gui, Detect
  <2> QED
    BY <2>2, <2>3
<1> QED
  BY <1>4, <1>5, <1>6, <1>7, <1>8 DEF IInv, SafeInv

-----------------------------------------------------------------------------
(* Unload.                                                                 *)

LEMMA UnloadKeeps == ASSUME IInv, Unload PROVE IInv'
<1>1. /\ pc[Gui] = "idle" /\ loaded /\ pc[Detect] # "enumerate"
      /\ loaded' = FALSE /\ callback' = FALSE
      /\ controllers' \subseteq controllers
      /\ pc' = [pc EXCEPT ![Gui] = "unregister"] /\ due' = {}
      /\ UNCHANGED <<doomed, openrgb, usb, current>>
  BY DEF Unload, Reconciled, Goto
<1>2. \/ raced' = raced /\ controllers' = controllers \intersect live
      \/ raced' = TRUE
  BY DEF Unload, Reconciled
<1>3. Alive' = Alive /\ Own' = Own /\ heap' = heap
  BY <1>1, HeapSame DEF openrgb
<1>4. PlugInv' /\ plugged' = plugged /\ node' = node
  BY <1>1, PlugSame DEF IInv, PlugInv
<1>5. ThreadsInv'
  BY <1>1, <1>2 DEF IInv, ThreadsInv, Threads, Gui, Detect
<1>6. ListInv'
  BY <1>1, ListSame DEF IInv, ListInv, ThreadsInv, Threads, Gui, Detect
<1>7. HeapInv'
  BY <1>1, <1>3 DEF IInv, HeapInv, ThreadsInv, openrgb, Threads, Gui, Detect
<1>8. ASSUME ~raced' PROVE ObjectsInv' /\ TrackingInv'
  <2>1. ObjectsInv /\ TrackingInv /\ controllers' = controllers \intersect live
    BY <1>2, <1>8 DEF IInv, SafeInv
  <2>2. ObjectsInv'
    BY <1>3, <1>4, <2>1 DEF ObjectsInv
  <2>3. TrackingInv'
    BY <1>1, <1>3, <2>1
       DEF IInv, TrackingInv, HeapInv, ThreadsInv, openrgb, Threads, Gui, Detect
  <2> QED
    BY <2>2, <2>3
<1> QED
  BY <1>4, <1>5, <1>6, <1>7, <1>8 DEF IInv, SafeInv

LEMMA UnregisterControllerKeeps == ASSUME IInv, UnregisterController PROVE IInv'
<1>1. PICK a \in controllers : doomed' = {a} /\ live' = live \ {a}
  BY DEF UnregisterController
<1>2. /\ pc[Gui] = "unregister" /\ pc' = [pc EXCEPT ![Gui] = "delete"]
      /\ UNCHANGED <<loaded, controllers, callback, heap, usb, current, due, raced>>
  BY DEF UnregisterController, Goto
<1>3. Alive' = Alive /\ Own' = Own
  BY <1>2, HeapSame
<1>4. PlugInv' /\ plugged' = plugged /\ node' = node
  BY <1>2, PlugSame DEF IInv, PlugInv
<1>5. ThreadsInv'
  BY <1>2 DEF IInv, ThreadsInv, Threads, Gui, Detect
<1>6. ListInv'
  BY <1>2, ListSame DEF IInv, ListInv, ThreadsInv, Threads, Gui, Detect
<1>7. HeapInv'
  BY <1>1, <1>2, <1>3 DEF IInv, HeapInv, ThreadsInv, Threads, Gui, Detect
<1>8. ASSUME ~raced' PROVE ObjectsInv' /\ TrackingInv'
  <2>1. ObjectsInv /\ TrackingInv
    BY <1>2, <1>8 DEF IInv, SafeInv
  <2>2. doomed = {}
    BY <1>2 DEF IInv, HeapInv
  <2>3. ObjectsInv'
    BY <1>2, <1>3, <1>4, <2>1 DEF ObjectsInv
  <2>4. TrackingInv'
    BY <1>1, <1>2, <1>3, <2>1, <2>2 DEF IInv, TrackingInv, ThreadsInv, Threads, Gui, Detect
  <2> QED
    BY <2>3, <2>4
<1> QED
  BY <1>4, <1>5, <1>6, <1>7, <1>8 DEF IInv, SafeInv

LEMMA DeleteControllerKeeps == ASSUME IInv, DeleteController PROVE IInv'
<1>1. /\ heap' = Without(heap, doomed) /\ controllers' = controllers \ doomed /\ doomed' = {}
      /\ pc[Gui] = "delete" /\ pc' = [pc EXCEPT ![Gui] = "unregister"]
      /\ UNCHANGED <<loaded, callback, live, usb, current, due, raced>>
  BY DEF DeleteController, Goto
<1>2. /\ Alive' = Alive \ doomed /\ heap' \in [Alive' -> Objects]
      /\ \A b \in Alive \ doomed : heap'[b] = heap[b]
      /\ Own' = Own \ doomed
  BY <1>1, ObjectsFreed DEF IInv, HeapInv
<1>3. PlugInv' /\ plugged' = plugged /\ node' = node
  BY <1>1, PlugSame DEF IInv, PlugInv
<1>4. ThreadsInv'
  BY <1>1 DEF IInv, ThreadsInv, Threads, Gui, Detect
<1>5. ListInv'
  BY <1>1, ListSame DEF IInv, ListInv, ThreadsInv, Threads, Gui, Detect
<1>6. HeapInv'
  BY <1>1, <1>2 DEF IInv, HeapInv
<1>7. ASSUME ~raced' PROVE ObjectsInv' /\ TrackingInv'
  <2>1. ObjectsInv /\ TrackingInv
    BY <1>1, <1>7 DEF IInv, SafeInv
  <2>2. Own \subseteq Alive
    BY DEF Own
  <2>3. ObjectsInv'
    BY <1>2, <1>3, <2>1, <2>2 DEF ObjectsInv
  <2>4. TrackingInv'
    BY <1>1, <1>2, <2>1 DEF IInv, TrackingInv, ThreadsInv, Threads, Gui, Detect
  <2> QED
    BY <2>3, <2>4
<1> QED
  BY <1>3, <1>4, <1>5, <1>6, <1>7 DEF IInv, SafeInv

LEMMA UnloadedKeeps == ASSUME IInv, Unloaded PROVE IInv'
<1>1. /\ pc[Gui] = "unregister" /\ controllers = {}
      /\ pc' = [pc EXCEPT ![Gui] = "idle"]
      /\ UNCHANGED <<plugin, openrgb, usb, current, due, raced>>
  BY DEF Unloaded, Goto
<1>2. Alive' = Alive /\ Own' = Own /\ heap' = heap
  BY <1>1, HeapSame DEF openrgb
<1>3. PlugInv' /\ plugged' = plugged /\ node' = node
  BY <1>1, PlugSame DEF IInv, PlugInv
<1>4. ThreadsInv'
  BY <1>1 DEF IInv, ThreadsInv, Threads, Gui, Detect, plugin
<1>5. ListInv'
  BY <1>1, ListSame DEF IInv, ListInv, ThreadsInv, Threads, Gui, Detect
<1>6. HeapInv'
  BY <1>1, <1>2 DEF IInv, HeapInv, plugin, openrgb
<1>7. ASSUME ~raced' PROVE ObjectsInv' /\ TrackingInv'
  <2>1. ObjectsInv /\ TrackingInv
    BY <1>1, <1>7 DEF IInv, SafeInv
  <2>2. ObjectsInv'
    BY <1>2, <1>3, <2>1 DEF ObjectsInv
  <2>3. TrackingInv'
    BY <1>1, <1>2, <2>1
       DEF IInv, TrackingInv, HeapInv, ThreadsInv, openrgb, plugin, Threads, Gui, Detect
  <2> QED
    BY <2>2, <2>3
<1> QED
  BY <1>3, <1>4, <1>5, <1>6, <1>7 DEF IInv, SafeInv

-----------------------------------------------------------------------------
(* OpenRGB and the keyboards.                                              *)

LEMMA RescanKeeps == ASSUME IInv, Rescan PROVE IInv'
<1>1. /\ pc[Gui] = "idle" /\ pc[Detect] = "idle"
      /\ heap' = Without(heap, live) /\ live' = {}
      /\ pc' = [pc EXCEPT ![Detect] = "detect"]
      /\ due' \in {{}, plugged}
      /\ UNCHANGED <<plugin, usb, current, raced>>
  BY DEF Rescan, Goto, Expected
<1>2. /\ Alive' = Alive \ live /\ heap' \in [Alive' -> Objects]
      /\ \A b \in Alive \ live : heap'[b] = heap[b]
      /\ Own' = Own \ live
  BY <1>1, ObjectsFreed DEF IInv, HeapInv
<1>3. PlugInv' /\ plugged' = plugged /\ node' = node
  BY <1>1, PlugSame DEF IInv, PlugInv
<1>4. ThreadsInv'
  BY <1>1 DEF IInv, ThreadsInv, Threads, Gui, Detect, plugin
<1>5. ListInv'
  BY <1>1, ListSame DEF IInv, ListInv, ThreadsInv, Threads, Gui, Detect
<1>6. HeapInv'
  BY <1>1, <1>2 DEF IInv, HeapInv, ThreadsInv, plugin, Threads, Gui, Detect
<1>7. ASSUME ~raced' PROVE ObjectsInv' /\ TrackingInv'
  <2>1. ObjectsInv /\ TrackingInv /\ doomed = {}
    BY <1>1, <1>7 DEF IInv, SafeInv, HeapInv
  <2>2. Own' = {}
    BY <1>1, <1>2, <2>1 DEF TrackingInv
  <2>3. ObjectsInv'
    BY <2>2 DEF ObjectsInv
  <2>4. TrackingInv'
    BY <1>1, <1>2, <2>1, <2>2
       DEF IInv, TrackingInv, ThreadsInv, plugin, Threads, Gui, Detect
  <2> QED
    BY <2>3, <2>4
<1> QED
  BY <1>3, <1>4, <1>5, <1>6, <1>7 DEF IInv, SafeInv

LEMMA DetectOtherKeeps == ASSUME IInv, DetectOther PROVE IInv'
<1> DEFINE o == [owner |-> "other", location |-> Nowhere, drives |-> Nothing]
<1>1. PICK a \in Addresses \ Alive : heap' = With(heap, a, o) /\ live' = live \union {a}
  BY DEF DetectOther
<1>2. pc[Detect] = "detect" /\ UNCHANGED <<plugin, usb, pc, current, due, raced>>
  BY DEF DetectOther
<1>3. o \in Objects /\ o.owner = "other"
  BY DEF Objects
<1> HIDE DEF o
<1>4. /\ Alive' = Alive \union {a} /\ heap' \in [Alive' -> Objects]
      /\ \A b \in Alive : heap'[b] = heap[b]
      /\ Own' = Own
  BY <1>1, <1>3, ObjectAdded DEF IInv, HeapInv
<1>5. PlugInv' /\ plugged' = plugged /\ node' = node
  BY <1>2, PlugSame DEF IInv, PlugInv
<1>6. ThreadsInv' /\ HeapInv'
  BY <1>1, <1>2, <1>4 DEF IInv, ThreadsInv, HeapInv, plugin
<1>7. ListInv'
  BY <1>2, ListSame DEF IInv, ListInv
<1>8. ASSUME ~raced' PROVE ObjectsInv' /\ TrackingInv'
  <2>1. ObjectsInv /\ TrackingInv
    BY <1>2, <1>8 DEF IInv, SafeInv
  <2>2. Own \subseteq Alive
    BY DEF Own
  <2>3. ObjectsInv'
    BY <1>4, <1>5, <2>1, <2>2 DEF ObjectsInv
  <2>4. TrackingInv'
    BY <1>1, <1>2, <1>4, <2>1 DEF TrackingInv, plugin
  <2> QED
    BY <2>3, <2>4
<1> QED
  BY <1>5, <1>6, <1>7, <1>8 DEF IInv, SafeInv

\* What pulling a keyboard out makes of the objects.
LEMMA HandlesLost ==
  ASSUME IInv, NEW k \in Keyboards, PlugOut(k)
  PROVE  /\ Alive' = Alive /\ Own' = Own /\ heap' \in [Alive' -> Objects]
         /\ \A a \in Alive : /\ heap'[a].location = heap[a].location
                             /\ heap'[a].drives = IF heap[a].drives = k THEN Nothing
                                                  ELSE heap[a].drives
<1>1. Alive' = Alive
  BY DEF PlugOut, Alive
<1>2. \A a \in Alive : heap[a] \in Objects
  BY DEF IInv, HeapInv
<1>3. \A a \in Alive :
        /\ heap'[a] \in Objects
        /\ heap'[a].owner = heap[a].owner /\ heap'[a].location = heap[a].location
        /\ heap'[a].drives = IF heap[a].drives = k THEN Nothing ELSE heap[a].drives
  BY <1>2 DEF PlugOut, Objects
<1>4. heap' \in [Alive -> Objects]
  BY <1>3 DEF PlugOut
<1>5. Own' = Own
  BY <1>1, <1>3 DEF Own
<1> QED
  BY <1>1, <1>3, <1>4, <1>5

LEMMA PlugOutKeeps == ASSUME IInv, NEW k \in Keyboards, PlugOut(k) PROVE IInv'
<1>1. /\ node' = Without(node, {k}) /\ due' = due \ {k}
      /\ UNCHANGED <<plugin, live, usages, pc, current, raced>>
  BY DEF PlugOut
<1>2. /\ Alive' = Alive /\ Own' = Own /\ heap' \in [Alive' -> Objects]
      /\ \A a \in Alive : /\ heap'[a].location = heap[a].location
                          /\ heap'[a].drives = IF heap[a].drives = k THEN Nothing
                                               ELSE heap[a].drives
  BY HandlesLost
<1>3. plugged' = plugged \ {k} /\ \A j \in plugged' : node'[j] = node[j]
  BY <1>1 DEF plugged, Without
<1>4. PlugInv'
  <2>1. node' \in [plugged' -> Nodes]
    BY <1>1, <1>3 DEF IInv, PlugInv, plugged, Without
  <2> QED
    BY <1>1, <1>3, <2>1 DEF IInv, PlugInv
<1>5. ThreadsInv' /\ HeapInv'
  BY <1>1, <1>2 DEF IInv, ThreadsInv, HeapInv, plugin
<1>6. ListInv'
  BY <1>1, ListSame DEF IInv, ListInv
<1>7. ASSUME ~raced' PROVE ObjectsInv' /\ TrackingInv'
  <2>1. ObjectsInv /\ TrackingInv
    BY <1>1, <1>7 DEF IInv, SafeInv
  <2>2. Own \subseteq Alive
    BY DEF Own
  <2>3. ObjectsInv'
    BY <1>2, <1>3, <2>1, <2>2 DEF ObjectsInv
  <2>4. TrackingInv'
    BY <1>1, <1>2, <2>1 DEF TrackingInv, plugin
  <2> QED
    BY <2>3, <2>4
<1> QED
  BY <1>4, <1>5, <1>6, <1>7 DEF IInv, SafeInv

LEMMA PlugInKeeps == ASSUME IInv, NEW k \in Keyboards, PlugIn(k) PROVE IInv'
<1>1. PICK n \in Nodes \ {node[j] : j \in plugged} : node' = With(node, k, n)
  BY DEF PlugIn
<1>2. k \notin plugged /\ UNCHANGED <<plugin, openrgb, usages, pc, current, due, raced>>
  BY DEF PlugIn
<1>3. Alive' = Alive /\ Own' = Own /\ heap' = heap
  BY <1>2, HeapSame DEF openrgb
<1>4. /\ plugged' = plugged \union {k}
      /\ node'[k] = n /\ \A j \in plugged : node'[j] = node[j]
  BY <1>1, <1>2 DEF plugged, With
<1>5. PlugInv'
  <2>1. node' \in [plugged' -> Nodes]
    BY <1>1, <1>4 DEF IInv, PlugInv, plugged, With
  <2>2. \A i, j \in plugged' : node'[i] = node'[j] => i = j
    BY <1>1, <1>4 DEF IInv, PlugInv
  <2> QED
    BY <1>2, <1>4, <2>1, <2>2 DEF IInv, PlugInv
<1>6. ThreadsInv' /\ HeapInv'
  BY <1>2, <1>3 DEF IInv, ThreadsInv, HeapInv, plugin, openrgb
<1>7. ListInv'
  BY <1>2, ListSame DEF IInv, ListInv
<1>8. ASSUME ~raced' PROVE ObjectsInv' /\ TrackingInv'
  <2>1. ObjectsInv /\ TrackingInv
    BY <1>2, <1>8 DEF IInv, SafeInv
  <2>2. ObjectsInv'
    BY <1>3, <1>4, <2>1 DEF ObjectsInv
  <2>3. TrackingInv'
    BY <1>2, <1>3, <2>1 DEF TrackingInv, plugin, openrgb
  <2> QED
    BY <2>2, <2>3
<1> QED
  BY <1>5, <1>6, <1>7, <1>8 DEF IInv, SafeInv

-----------------------------------------------------------------------------

LEMMA StepInv == IInv /\ [Next]_vars => IInv'
<1> SUFFICES ASSUME IInv, [Next]_vars PROVE IInv'
  OBVIOUS
<1>1. ASSUME NEW t \in Threads, EnumerateStep(t) PROVE IInv'
  BY <1>1, ListKeeps, AddControllerKeeps DEF EnumerateStep
<1>2. CASE GuiStep
  BY <1>1, <1>2, ReturnKeeps, UnregisterControllerKeeps, DeleteControllerKeeps,
     UnloadedKeeps DEF GuiStep, Threads
<1>3. CASE DetectStep
  BY <1>1, <1>3, DetectionEndKeeps, ReturnKeeps DEF DetectStep, Threads
<1>4. CASE Load \/ Unload \/ Rescan \/ DetectOther
  BY <1>4, LoadKeeps, UnloadKeeps, RescanKeeps, DetectOtherKeeps
<1>5. ASSUME NEW k \in Keyboards, PlugOut(k) \/ PlugIn(k) PROVE IInv'
  BY <1>5, PlugOutKeeps, PlugInKeeps
<1>6. CASE UNCHANGED vars
  <2>1. Alive' = Alive /\ Own' = Own
    BY <1>6, HeapSame DEF vars, openrgb
  <2>2. plugged' = plugged
    BY <1>6 DEF vars, usb, plugged
  <2> QED
    BY <1>6, <2>1, <2>2
       DEF vars, plugin, openrgb, usb, IInv, ThreadsInv, PlugInv, ListInv, HeapInv,
           SafeInv, ObjectsInv, TrackingInv, InterfaceMatch
<1> QED
  BY <1>2, <1>3, <1>4, <1>5, <1>6 DEF Next

\* The inductive invariant holds in every reachable state.
THEOREM Invariance == Spec => []IInv
BY InitInv, StepInv, PTL DEF Spec

\* Every variable keeps its type, for any keyboards, nodes and addresses.
THEOREM TypeCorrect == Spec => []TypeOK
<1>1. IInv => TypeOK
  BY DEF IInv, ThreadsInv, PlugInv, ListInv, HeapInv, TypeOK
<1> QED
  BY <1>1, Invariance, PTL

\* Although OpenRGB frees controllers without telling, and the plugin knows them
\* by their addresses only, it asks for the location of, and deletes, none that
\* was freed, unless a Reconcile has raced OpenRGB's changes of its list.
THEOREM NoUseAfterFree == Spec => []NobodyUsesFreed
<1>1. IInv => NobodyUsesFreed
  <2> SUFFICES ASSUME IInv, ~raced, NEW t \in Threads,
                      pc[t] \in {"enumerate", "unregister", "delete"}
               PROVE  controllers \subseteq Alive
    BY DEF NobodyUsesFreed, IInv, SafeInv, TrackingInv
  <2>1. TrackingInv
    BY DEF IInv, SafeInv
  <2>2. t = Gui \/ t = Detect
    BY DEF Threads
  <2>3. CASE t = Gui
    BY <2>1, <2>3 DEF TrackingInv
  <2>4. CASE t = Detect
    BY <2>1, <2>4 DEF IInv, ThreadsInv, TrackingInv
  <2> QED
    BY <2>2, <2>3, <2>4
<1> QED
  BY <1>1, Invariance, PTL

\* No two controllers ever draw on one keyboard, through any loads, unloads and
\* rescans, and under whatever nodes the keyboards come back; with the same proviso.
THEOREM OnePerKeyboard == Spec => []OneControllerPerKeyboard
<1>1. IInv => OneControllerPerKeyboard
  <2> SUFFICES ASSUME IInv, ~raced, NEW a \in Own, NEW b \in Own,
                      heap[a].drives = heap[b].drives, heap[a].drives # Nothing
               PROVE  a = b
    BY DEF OneControllerPerKeyboard
  <2>1. heap[a].location = heap[b].location
    BY DEF IInv, SafeInv, ObjectsInv
  <2> QED
    BY <2>1 DEF IInv, SafeInv, ObjectsInv
<1> QED
  BY <1>1, Invariance, PTL

\* Once Unload is back none of the plugin's objects is left and no callback can
\* come: its code may go away; with the same proviso.
THEOREM UnloadIsComplete == Spec => []NothingLeftAfterUnload
<1>1. IInv => NothingLeftAfterUnload
  BY DEF IInv, ThreadsInv, SafeInv, TrackingInv, NothingLeftAfterUnload
<1> QED
  BY <1>1, Invariance, PTL

\* The plugin has no lock.  As OpenRGB rescans from Gui, and the callback is
\* registered last in Load and waited for first in Unload, the vector of
\* controllers needs none: Detect runs plugin code only while Gui runs none.
\* (OpenRGB's own list is another matter: it races Unload's Reconcile.)
ThreadsTakeTurns == ~(pc[Gui] # "idle" /\ pc[Detect] = "enumerate")

THEOREM NoLockIsNeeded == Spec => []ThreadsTakeTurns
<1>1. IInv => ThreadsTakeTurns
  BY DEF IInv, ThreadsInv, ThreadsTakeTurns
<1> QED
  BY <1>1, Invariance, PTL

-----------------------------------------------------------------------------
(* What a keyboard that is due has to wait for.                            *)

\* An entry by which a thread may still come to keyboard k.
Ahead(t, k) ==
  /\ pc[t] = "enumerate"
  /\ \E e \in current[t] : InterfaceMatch(e) /\ e.path = <<node[k], 0>>

\* A keyboard that is due is shown, or a thread has it ahead, or a detection is on
\* whose end will call back.  No handle at its path has lost its device, and no
\* device of another kind is taken for it.
DueInv ==
  /\ \A a \in Alive \ Own : heap[a].location = Nowhere
  /\ raced => due = {}
  /\ due # {} => loaded
  /\ loaded /\ pc[Gui] = "idle" => callback
  /\ \A k \in due :
       /\ \A a \in Own : heap[a].location = <<node[k], 0>> => heap[a].drives = k
       /\ \/ Shown(k)
          \/ \E t \in Threads : Ahead(t, k)
          \/ pc[Detect] = "detect" /\ callback

\* KeyboardComesBack without its fairness: where no enumeration is on or to come,
\* each keyboard that is due is shown.
ShownInTheEnd ==
  /\ \A t \in Threads : pc[t] # "enumerate"
  /\ ~ (pc[Detect] = "detect" /\ callback)
  => \A k \in due : Shown(k)

LEMMA ListedHas ==
  ASSUME NEW k
  PROVE  \E e \in Listed(k) : InterfaceMatch(e) /\ e.path = <<node[k], 0>>
<1>1. CASE usages
  <2>1. [path |-> <<node[k], 0>>, usage |-> "lighting"] \in Listed(k)
    BY <1>1 DEF Listed
  <2> QED
    BY <2>1 DEF InterfaceMatch
<1>2. CASE ~usages
  <2>1. [path |-> <<node[k], 0>>, usage |-> "unknown"] \in Listed(k)
    BY <1>2 DEF Listed
  <2> QED
    BY <2>1 DEF InterfaceMatch
<1> QED
  BY <1>1, <1>2

\* Something is due only where there was no race, and the keyboard has a node.
LEMMA DueFacts ==
  ASSUME IInv, DueInv, NEW k \in due
  PROVE  /\ ~raced /\ loaded /\ k \in plugged
         /\ <<node[k], 0>> \in Paths /\ <<node[k], 0>> # Nowhere
<1>1. ~raced /\ loaded /\ k \in plugged
  BY DEF DueInv, IInv, PlugInv
<1>2. <<node[k], 0>> \in Paths
  BY <1>1 DEF IInv, PlugInv, Paths
<1> QED
  BY <1>1, <1>2, KlcPluginAssumption

\* While plugin code runs, what is tracked under the path of a keyboard that is
\* due shows it.
LEMMA TrackedIsShown ==
  ASSUME IInv, DueInv, NEW t \in Threads, pc[t] = "enumerate", NEW k \in due,
         AlreadyTracked(<<node[k], 0>>)
  PROVE  Shown(k)
<1>1. PICK a \in controllers \intersect Alive : heap[a].location = <<node[k], 0>>
  BY DEF AlreadyTracked
<1>2. a \in Own
  BY <1>1, DueFacts DEF DueInv
<1>3. a \in live
  BY <1>1, DueFacts, WhileListing
<1> QED
  BY <1>1, <1>2, <1>3 DEF DueInv, Shown

LEMMA DueInit == Init => DueInv
<1> SUFFICES ASSUME Init PROVE DueInv
  OBVIOUS
<1>1. Alive = {}
  BY DEF Init, Alive
<1> QED
  BY <1>1 DEF Init, DueInv, Threads

LEMMA SkipKeepsDue ==
  ASSUME IInv, DueInv, NEW t \in Threads, SkipEntry(t) \/ OpenFails(t) PROVE DueInv'
<1>1. PICK e \in current[t] :
        /\ current' = [current EXCEPT ![t] = @ \ {e}]
        /\ \/ ~InterfaceMatch(e) \/ AlreadyTracked(e.path)
           \/ due' = {k \in due : ~IsAt(k, e.path)}
  BY DEF SkipEntry, OpenFails
<1>2. /\ pc[t] = "enumerate" /\ due' \subseteq due
      /\ UNCHANGED <<plugin, openrgb, usb, pc, raced>>
  BY DEF SkipEntry, OpenFails
<1>3. Alive' = Alive /\ Own' = Own /\ heap' = heap /\ live' = live /\ node' = node
  BY <1>2, HeapSame DEF openrgb, usb
<1>4. current \in [Threads -> SUBSET Entries]
  BY DEF IInv, ListInv
<1>5. ASSUME NEW k \in due', NEW s \in Threads, Ahead(s, k)
      PROVE  Shown(k) \/ Ahead(s, k)'
  <2>1. PICK f \in current[s] : InterfaceMatch(f) /\ f.path = <<node[k], 0>>
    BY <1>5 DEF Ahead
  <2>2. CASE f \in current'[s]
    BY <1>2, <1>3, <1>5, <2>1, <2>2 DEF Ahead, InterfaceMatch
  <2>3. CASE f \notin current'[s]
    <3>1. f = e
      BY <1>1, <1>4, <2>1, <2>3
    <3>2. k \in due /\ IsAt(k, e.path)
      BY <1>2, <2>1, <3>1, DueFacts DEF IsAt
    <3>3. AlreadyTracked(<<node[k], 0>>)
      BY <1>1, <1>5, <2>1, <3>1, <3>2
    <3> QED
      BY <1>2, <3>2, <3>3, TrackedIsShown
  <2> QED
    BY <2>2, <2>3
<1>6. \A k : Shown(k) => Shown(k)'
  BY <1>3 DEF Shown
<1> QED
  BY <1>2, <1>3, <1>5, <1>6 DEF DueInv, plugin

LEMMA AddKeepsDue ==
  ASSUME IInv, DueInv, NEW t \in Threads, AddController(t) PROVE DueInv'
<1>1. PICK e \in current[t], a \in Addresses \ Alive, k \in plugged :
        /\ IsAt(k, e.path)
        /\ heap' = With(heap, a, [owner |-> "plugin", location |-> e.path, drives |-> k])
        /\ live' = live \union {a}
        /\ current' = [current EXCEPT ![t] = @ \ {e}]
  BY DEF AddController
<1>2. UNCHANGED <<loaded, callback, usb, pc, due, raced>>
  BY DEF AddController
<1>3. node' = node
  BY <1>2 DEF usb
<1> DEFINE o == [owner |-> "plugin", location |-> e.path, drives |-> k]
<1>4. e.path = <<node[k], 0>> /\ e.path \in Paths /\ k \in Keyboards
  BY <1>1 DEF IsAt, IInv, PlugInv, Paths
<1>5. o \in Objects /\ o.owner = "plugin" /\ o.location = <<node[k], 0>> /\ o.drives = k
  BY <1>4 DEF Objects
<1> HIDE DEF o
<1>6. /\ Alive' = Alive \union {a}
      /\ heap'[a] = o /\ \A b \in Alive : heap'[b] = heap[b]
      /\ Own' = Own \union {a}
  <2>1. heap' = With(heap, a, o)
    BY <1>1 DEF o
  <2> QED
    BY <1>1, <1>5, <2>1, ObjectAdded DEF IInv, HeapInv
<1>7. current \in [Threads -> SUBSET Entries] /\ Own \subseteq Alive
  BY DEF IInv, ListInv, Own
<1>8. ASSUME NEW j \in due, node[j] = node[k] PROVE j = k
  BY <1>8, <1>1, DueFacts DEF IInv, PlugInv
<1>9. ASSUME NEW j \in due, NEW s \in Threads, Ahead(s, j)
      PROVE  Shown(j)' \/ Ahead(s, j)'
  <2>1. PICK f \in current[s] : InterfaceMatch(f) /\ f.path = <<node[j], 0>>
    BY <1>9 DEF Ahead
  <2>2. CASE f \in current'[s]
    BY <1>2, <1>3, <1>9, <2>1, <2>2 DEF Ahead, InterfaceMatch
  <2>3. CASE f \notin current'[s]
    <3>1. f = e
      BY <1>1, <1>7, <2>1, <2>3
    <3>2. j = k
      BY <1>4, <1>8, <2>1, <3>1
    <3> QED
      BY <1>1, <1>5, <1>6, <3>2 DEF Shown
  <2> QED
    BY <2>2, <2>3
<1>10. \A j : Shown(j) => Shown(j)'
  BY <1>1, <1>6, <1>7 DEF Shown
<1>11. \A b \in Alive' \ Own' : heap'[b].location = Nowhere
  BY <1>6 DEF DueInv
<1>12. ASSUME NEW j \in due, NEW b \in Own', heap'[b].location = <<node[j], 0>>
       PROVE  heap'[b].drives = j
  <2>1. CASE b = a
    BY <1>5, <1>6, <1>8, <1>12, <2>1
  <2>2. CASE b # a
    BY <1>6, <1>7, <1>12, <2>2 DEF DueInv
  <2> QED
    BY <2>1, <2>2
<1> QED
  BY <1>2, <1>3, <1>9, <1>10, <1>11, <1>12 DEF DueInv

\* An enumeration has each keyboard ahead that is plugged in.
LEMMA EnumerateHasAhead ==
  ASSUME IInv, NEW t \in Threads, Enumerate(t), pc' = [pc EXCEPT ![t] = "enumerate"],
         node' = node, NEW k \in plugged
  PROVE  Ahead(t, k)'
<1>1. current'[t] = UNION {Listed(j) : j \in plugged} /\ pc'[t] = "enumerate"
  BY DEF Enumerate, IInv, ListInv, ThreadsInv
<1>2. PICK e \in Listed(k) : InterfaceMatch(e) /\ e.path = <<node[k], 0>>
  BY ListedHas
<1> QED
  BY <1>1, <1>2 DEF Ahead, InterfaceMatch

LEMMA LoadKeepsDue == ASSUME IInv, DueInv, Load PROVE DueInv'
<1>1. /\ pc[Gui] = "idle" /\ ~loaded /\ loaded' = TRUE
      /\ due' = IF raced THEN {} ELSE plugged
      /\ Enumerate(Gui) /\ pc' = [pc EXCEPT ![Gui] = "enumerate"]
      /\ UNCHANGED <<callback, openrgb, usb, raced>>
  BY DEF Load, Goto, Expected
<1>2. Alive' = Alive /\ Own' = Own /\ heap' = heap /\ node' = node
  BY <1>1, HeapSame DEF openrgb, usb
<1>3. ~raced => Own = {}
  BY <1>1 DEF IInv, SafeInv, TrackingInv
<1>4. \A k \in due' : Ahead(Gui, k)'
  BY <1>1, <1>2, EnumerateHasAhead DEF Threads
<1>5. pc'[Gui] = "enumerate"
  BY <1>1 DEF IInv, ThreadsInv, Threads
<1> QED
  BY <1>1, <1>2, <1>3, <1>4, <1>5 DEF DueInv, Threads

LEMMA DetectionEndKeepsDue == ASSUME IInv, DueInv, DetectionEnd PROVE DueInv'
<1>1. pc[Detect] = "detect" /\ UNCHANGED <<loaded, callback, openrgb, usb, due, raced>>
  BY DEF DetectionEnd
<1>2. Alive' = Alive /\ Own' = Own /\ heap' = heap /\ live' = live /\ node' = node
  BY <1>1, HeapSame DEF openrgb, usb
<1>3. pc'[Gui] = pc[Gui]
  BY DEF DetectionEnd, Goto, IInv, ThreadsInv, Threads, Gui, Detect
<1>4. CASE callback
  <2>1. Enumerate(Detect) /\ pc' = [pc EXCEPT ![Detect] = "enumerate"]
    BY <1>4 DEF DetectionEnd, Goto
  <2>2. \A k \in due : Ahead(Detect, k)'
    BY <1>2, <2>1, EnumerateHasAhead DEF Threads, IInv, PlugInv
  <2> QED
    BY <1>1, <1>2, <1>3, <2>2 DEF DueInv, Threads
<1>5. CASE ~callback
  <2>1. UNCHANGED current
    BY <1>5 DEF DetectionEnd
  <2>2. ASSUME NEW k, NEW s \in Threads, Ahead(s, k) PROVE Ahead(s, k)'
    BY <1>1, <1>2, <1>3, <2>1, <2>2 DEF Ahead, InterfaceMatch, Threads
  <2>3. \A k : Shown(k) => Shown(k)'
    BY <1>2 DEF Shown
  <2> QED
    BY <1>1, <1>2, <1>3, <1>5, <2>2, <2>3 DEF DueInv
<1> QED
  BY <1>4, <1>5

\* The threads leave Enumerate with nothing ahead.
LEMMA ReturnKeepsDue ==
  ASSUME IInv, DueInv, RegisterCallback \/ CallbackReturns PROVE DueInv'
<1>1. PICK t \in Threads : pc[t] = "enumerate" /\ current[t] = {}
                           /\ pc' = [pc EXCEPT ![t] = "idle"]
  BY DEF RegisterCallback, CallbackReturns, Goto, Threads
<1>2. /\ UNCHANGED <<loaded, openrgb, usb, current, due, raced>>
      /\ callback => callback'
      /\ pc'[Gui] = "idle" => pc[Gui] = "idle" \/ callback'
  BY DEF RegisterCallback, CallbackReturns, Goto, plugin, IInv, ThreadsInv,
         Threads, Gui, Detect
<1>3. Alive' = Alive /\ Own' = Own /\ heap' = heap /\ live' = live /\ node' = node
  BY <1>2, HeapSame DEF openrgb, usb
<1>4. ASSUME NEW k, NEW s \in Threads, Ahead(s, k) PROVE Ahead(s, k)'
  BY <1>1, <1>2, <1>3, <1>4 DEF Ahead, InterfaceMatch
<1>5. \A k : Shown(k) => Shown(k)'
  BY <1>3 DEF Shown
<1>6. pc[Detect] = "detect" => pc'[Detect] = "detect"
  BY <1>1 DEF IInv, ThreadsInv, Threads
<1> QED
  BY <1>2, <1>3, <1>4, <1>5, <1>6 DEF DueInv

\* Nothing is due while the plugin is not loaded.
LEMMA UnloadKeepsDue ==
  ASSUME IInv, DueInv, Unload \/ UnregisterController \/ DeleteController \/ Unloaded
  PROVE  DueInv'
<1>1. due' = {} /\ loaded' = FALSE
  BY DEF Unload, UnregisterController, DeleteController, Unloaded, plugin,
         IInv, ThreadsInv, DueInv
<1>2. \A a \in Alive' \ Own' : heap'[a].location = Nowhere
  <2>1. CASE DeleteController
    <3>1. /\ Alive' = Alive \ doomed /\ Own' = Own \ doomed
          /\ \A b \in Alive \ doomed : heap'[b] = heap[b]
      BY <2>1, ObjectsFreed DEF DeleteController, IInv, HeapInv
    <3> QED
      BY <3>1 DEF DueInv
  <2>2. CASE heap' = heap
    BY <2>2, HeapSame DEF DueInv
  <2> QED
    BY <2>1, <2>2 DEF Unload, UnregisterController, Unloaded, openrgb
<1> QED
  BY <1>1, <1>2 DEF DueInv

LEMMA RescanKeepsDue == ASSUME IInv, DueInv, Rescan PROVE DueInv'
<1>1. /\ pc[Gui] = "idle" /\ pc' = [pc EXCEPT ![Detect] = "detect"]
      /\ heap' = Without(heap, live)
      /\ due' \subseteq (IF raced THEN {} ELSE plugged)
      /\ due' # {} => loaded
      /\ UNCHANGED <<plugin, raced>>
  BY DEF Rescan, Goto, Expected
<1>2. /\ Alive' = Alive \ live /\ Own' = Own \ live
      /\ \A b \in Alive \ live : heap'[b] = heap[b]
  BY <1>1, ObjectsFreed DEF IInv, HeapInv
<1>3. ~raced => Own' = {}
  BY <1>1, <1>2 DEF IInv, SafeInv, HeapInv, TrackingInv
<1>4. pc'[Detect] = "detect" /\ pc'[Gui] = "idle"
  BY <1>1 DEF IInv, ThreadsInv, Threads, Gui, Detect
<1> QED
  BY <1>1, <1>2, <1>3, <1>4 DEF DueInv, plugin

LEMMA DetectOtherKeepsDue == ASSUME IInv, DueInv, DetectOther PROVE DueInv'
<1> DEFINE o == [owner |-> "other", location |-> Nowhere, drives |-> Nothing]
<1>1. PICK a \in Addresses \ Alive : heap' = With(heap, a, o) /\ live' = live \union {a}
  BY DEF DetectOther
<1>2. UNCHANGED <<plugin, usb, pc, current, due, raced>> /\ node' = node
  BY DEF DetectOther, usb
<1>3. o \in Objects /\ o.owner = "other" /\ o.location = Nowhere
  BY DEF Objects
<1> HIDE DEF o
<1>4. /\ Alive' = Alive \union {a} /\ heap'[a] = o /\ Own' = Own
      /\ \A b \in Alive : heap'[b] = heap[b]
  BY <1>1, <1>3, ObjectAdded DEF IInv, HeapInv
<1>5. Own \subseteq Alive
  BY DEF Own
<1>6. \A k : Shown(k) => Shown(k)'
  BY <1>1, <1>4, <1>5 DEF Shown
<1>7. \A k, s : Ahead(s, k) => Ahead(s, k)'
  BY <1>2 DEF Ahead, InterfaceMatch
<1>8. \A b \in Alive' \ Own' : heap'[b].location = Nowhere
  BY <1>3, <1>4 DEF DueInv
<1>9. \A k \in due, b \in Own' : heap'[b].location = <<node[k], 0>> => heap'[b].drives = k
  BY <1>4, <1>5 DEF DueInv
<1> QED
  BY <1>2, <1>6, <1>7, <1>8, <1>9 DEF DueInv, plugin

\* A keyboard that is due keeps its node, and what drives it goes on to do so.
LEMMA PlugKeepsDue ==
  ASSUME IInv, DueInv, NEW k \in Keyboards, PlugOut(k) \/ PlugIn(k) PROVE DueInv'
<1>1. UNCHANGED <<plugin, live, usages, pc, current, raced>>
  BY DEF PlugOut, PlugIn, openrgb
<1>2. /\ Alive' = Alive /\ Own' = Own
      /\ \A a \in Alive : heap'[a].location = heap[a].location
  <2>1. CASE PlugOut(k)
    BY <2>1, HandlesLost
  <2>2. CASE PlugIn(k)
    BY <2>2, HeapSame DEF PlugIn, openrgb
  <2> QED
    BY <2>1, <2>2
<1>3. due' \subseteq due /\ \A j \in due' : node'[j] = node[j]
  <2>1. \A j \in due : j \in plugged
    BY DueFacts
  <2>2. CASE PlugOut(k)
    BY <2>1, <2>2 DEF PlugOut, Without, plugged
  <2>3. CASE PlugIn(k)
    <3>1. PICK n : node' = With(node, k, n)
      BY <2>3 DEF PlugIn
    <3> QED
      BY <2>1, <2>3, <3>1 DEF PlugIn, With, plugged
  <2> QED
    BY <2>2, <2>3
<1>4. ASSUME NEW j \in due', NEW a \in Alive, heap[a].drives = j PROVE heap'[a].drives = j
  <2>1. CASE PlugOut(k)
    <3>1. j # k
      BY <2>1, <1>4 DEF PlugOut
    <3> QED
      BY <2>1, <1>4, <3>1, HandlesLost
  <2>2. CASE PlugIn(k)
    BY <1>4, <2>2 DEF PlugIn, openrgb
  <2> QED
    BY <2>1, <2>2
<1>5. Own \subseteq Alive
  BY DEF Own
<1>6. \A j \in due' : Shown(j) => Shown(j)'
  BY <1>1, <1>2, <1>4, <1>5 DEF Shown
<1>7. \A j \in due', s \in Threads : Ahead(s, j) => Ahead(s, j)'
  BY <1>1, <1>3 DEF Ahead, InterfaceMatch
<1>8. \A b \in Alive' \ Own' : heap'[b].location = Nowhere
  BY <1>2 DEF DueInv
<1>9. \A j \in due', b \in Own' : heap'[b].location = <<node'[j], 0>> => heap'[b].drives = j
  BY <1>2, <1>3, <1>4, <1>5 DEF DueInv
<1> QED
  BY <1>1, <1>3, <1>6, <1>7, <1>8, <1>9 DEF DueInv, plugin

LEMMA DueStep == IInv /\ DueInv /\ [Next]_vars => DueInv'
<1> SUFFICES ASSUME IInv, DueInv, [Next]_vars PROVE DueInv'
  OBVIOUS
<1>1. ASSUME NEW t \in Threads, EnumerateStep(t) PROVE DueInv'
  BY <1>1, SkipKeepsDue, AddKeepsDue DEF EnumerateStep
<1>2. CASE GuiStep
  BY <1>1, <1>2, ReturnKeepsDue, UnloadKeepsDue DEF GuiStep, Threads
<1>3. CASE DetectStep
  BY <1>1, <1>3, DetectionEndKeepsDue, ReturnKeepsDue DEF DetectStep, Threads
<1>4. CASE Load \/ Unload \/ Rescan \/ DetectOther
  BY <1>4, LoadKeepsDue, UnloadKeepsDue, RescanKeepsDue, DetectOtherKeepsDue
<1>5. ASSUME NEW k \in Keyboards, PlugOut(k) \/ PlugIn(k) PROVE DueInv'
  BY <1>5, PlugKeepsDue
<1>6. CASE UNCHANGED vars
  BY <1>6 DEF vars, plugin, openrgb, usb, DueInv, Alive, Own, Shown, Ahead, InterfaceMatch
<1> QED
  BY <1>2, <1>3, <1>4, <1>5, <1>6 DEF Next

\* Rescans, loads and detections in any order leave no keyboard behind: once the
\* enumerations are over each that was there and did open is shown.
THEOREM NoneIsLeftBehind == Spec => []ShownInTheEnd
<1>1. IInv /\ DueInv => ShownInTheEnd
  BY DEF DueInv, ShownInTheEnd, Ahead
<1> QED
  BY <1>1, DueInit, DueStep, Invariance, PTL DEF Spec
=============================================================================
