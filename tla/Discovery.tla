----------------------------- MODULE Discovery -----------------------------
(***************************************************************************)
(* A worker gets to know its network: discover_devices sends Who-Is, reads *)
(* every device that answers (PropertyReads), makes a configuration for it *)
(* (DeviceConfig) and, when all of them are through, the tasks that        *)
(* subscribe to and poll its objects.  From then on an I-Am of a device    *)
(* makes the tasks again that the configuration wants again.               *)
(*                                                                         *)
(* handle_device runs once for each I-Am that was heard, all of them at    *)
(* the same time; a device may answer twice.  How a subscription is made   *)
(* is in CovSubscriptions; here it is made at once.                        *)
(***************************************************************************)
EXTENDS DeviceConfig, PropertyReads

CONSTANTS
  Answers,    \* the I-Ams heard within the 5 seconds of who_is
  Networks,   \* which devices they may come from: functions from Answers
  Contents,   \* Contents[d]: the objects of device d
  Saved,      \* devices of which the file may hold the objects
  Own,        \* the device object, in a read of it
  Handlers,   \* do_IAmRequest, one for each later I-Am
  Main,       \* discover_devices, when it makes tasks
  None

Phase == [kind : {"cov", "poll"}, items : [Item -> Nat]]

ASSUME DiscoveryAssumption ==
  /\ Networks \subseteq [Answers -> Devices]
  /\ Contents \in [Devices -> SUBSET Objects] /\ Saved \subseteq Devices
  /\ Reads = Answers \X (Objects \cup {Own}) /\ Own \notin Objects
  /\ IsFiniteSet(Answers) /\ IsFiniteSet(Objects) /\ IsFiniteSet(Handlers)
  /\ Main \notin Handlers /\ None \notin [device : Devices, left : Seq(Phase)]

VARIABLES
  from,                   \* from[a]: the device I-Am a came from
  handling,               \* handling[a]: where handle_device is
  toRead,                 \* toRead[a]: the objects it reads
  objectList,             \* objectList[d]: what the dictionary has of it, None if no d
  present,                \* objects that have an entry in the dictionary
  device_configurations,  \* sequence of configurations, with their device
  discover,               \* "asking", "gathering", "generating", "done" or "dead"
  complete,               \* init_discovery_complete
  made,                   \* configurations discover_devices has made tasks of
  passes,                 \* passes[p]: what config_to_tasks has left, None if p does not run it
  rereads,                \* rereads[d]: how often it was run for an I-Am of d
  subscribed,             \* objects with a subscription task
  polls                   \* polls[d, o]: poll tasks of the object

handlingVars == <<from, handling, toRead, objectList, present>>
taskVars == <<passes, rereads, subscribed, polls>>
mainVars == <<device_configurations, discover, complete, made>>
discoveryVars == <<readVars, handlingVars, mainVars, taskVars>>

Places == Devices \X Objects
Runners == Handlers \cup {Main}
Readable(d) == Eligible(Contents[d], d)

DiscoveryTypeOK ==
  /\ ReadsTypeOK
  /\ from \in Networks
  /\ handling \in [Answers -> {"none", "device", "objects", "configured", "failed"}]
  /\ toRead \in [Answers -> SUBSET Objects]
  /\ objectList \in [Devices -> (SUBSET Objects) \cup {None}]
  /\ present \subseteq Places
  /\ device_configurations \in Seq([device : Devices, lists : Lists])
  /\ discover \in {"asking", "gathering", "generating", "done", "dead"}
  /\ complete \in BOOLEAN
  /\ made \in 0..Len(device_configurations)
  /\ \A p \in Runners :
       passes[p] # None => /\ passes[p].device \in Devices
                           /\ passes[p].left \in Seq(Phase)
  /\ rereads \in [Devices -> 0..Cardinality(Handlers)]
  /\ subscribed \subseteq Places
  /\ \A x \in Places : polls[x] \in Nat

\* What was restored from the file may hold a device and its objects.
DiscoveryInit ==
  /\ ReadsInit
  /\ from \in Networks
  /\ handling = [a \in Answers |-> "none"]
  /\ toRead = [a \in Answers |-> {}]
  /\ \E restored \in SUBSET Saved :
       /\ objectList = [d \in Devices |-> IF d \in restored THEN Contents[d] ELSE None]
       /\ present = {x \in Places : x[1] \in restored /\ x[2] \in Readable(x[1])}
  /\ device_configurations = <<>>
  /\ discover = "asking"
  /\ complete = FALSE
  /\ made = 0
  /\ passes = [p \in Runners |-> None]
  /\ rereads = [d \in Devices |-> 0]
  /\ subscribed = {}
  /\ polls = [x \in Places |-> 0]

----------------------------------------------------------------------------
(* handle_device.                                                           *)

ObjectReads(a) == {<<a, o>> : o \in toRead[a]}

\* Who-Is has been answered; every device is asked for its property list.
Gather ==
  /\ discover = "asking"
  /\ discover' = "gathering"
  /\ handling' = [a \in Answers |-> "device"]
  /\ StartLists({<<a, Own>> : a \in Answers})
  /\ UNCHANGED <<from, toRead, objectList, present,
                 device_configurations, complete, made, taskVars>>

ReadDevice(a) ==
  /\ handling[a] = "device"
  /\ StartMultiple({<<a, Own>>})
  /\ UNCHANGED <<handlingVars, mainVars, taskVars>>

\* The device has been read; whatever came of it, the dictionary may have got
\* an entry for it, with its object list or without.
DeviceRead(a) ==
  LET d == from[a] IN
    /\ handling[a] = "device"
    /\ result[<<a, Own>>] \in {"read", "failed"}
    /\ \E list \in {objectList[d], Contents[d]} \cup (IF objectList[d] = None THEN {{}} ELSE {}) :
         /\ objectList' = [objectList EXCEPT ![d] = list]
         /\ toRead' = [toRead EXCEPT ![a] = IF list = None THEN {} ELSE Eligible(list, d)]
    /\ handling' = [handling EXCEPT ![a] = "objects"]
    /\ UNCHANGED <<readVars, from, present, mainVars, taskVars>>

\* read_objects_of_device: property lists one after the other ...
ListObject(a) ==
  /\ handling[a] = "objects"
  /\ \A r \in ObjectReads(a) : result[r] \notin {"listing", "unlisted"}
  /\ \E r \in ObjectReads(a) : StartLists({r})
  /\ UNCHANGED <<handlingVars, mainVars, taskVars>>

\* ... and then all the objects at once, in the way the device can.
ReadObjects(a) ==
  /\ handling[a] = "objects"
  /\ ObjectReads(a) # {}
  /\ StartMultiple(ObjectReads(a)) \/ StartSingle(ObjectReads(a))
  /\ UNCHANGED <<handlingVars, mainVars, taskVars>>

\* Mutant: discovery is called complete as soon as one device is.
AddAndComplete(config) ==
  /\ device_configurations' = Append(device_configurations, config)
  /\ complete' = TRUE
  /\ UNCHANGED <<discover, made>>

AddConfiguration(config) ==
  /\ device_configurations' = Append(device_configurations, config)
  /\ UNCHANGED <<discover, complete, made>>

\* All the objects have been read, or what could be of them; exceptions among
\* the reads are passed over.
Configure(a) ==
  LET d == from[a] IN
    /\ handling[a] = "objects"
    /\ \A r \in ObjectReads(a) : Ended(r)
    /\ objectList[d] # None /\ ~Raises(ConfigOf[d])
    /\ \E new \in SUBSET {<<d, o>> : o \in toRead[a]} : present' = present \cup new
    /\ AddConfiguration([device |-> d,
                         lists |-> Generated(ConfigOf[d], d, objectList[d] \ Ignored)])
    /\ handling' = [handling EXCEPT ![a] = "configured"]
    /\ UNCHANGED <<readVars, from, toRead, objectList, taskVars>>

\* A property list cannot be read, nothing is known of the device, or its
\* configuration raises.  The first to fail is the end of discover_devices; the
\* others go on by themselves.
HandleFails(a) ==
  /\ \/ handling[a] = "device" /\ result[<<a, Own>>] \in {"unlisted", "raised"}
     \/ /\ handling[a] = "objects"
        /\ \/ objectList[from[a]] = None
           \/ \E r \in ObjectReads(a) : result[r] = "unlisted"
           \/ Raises(ConfigOf[from[a]]) /\ \A r \in ObjectReads(a) : Ended(r)
  /\ handling' = [handling EXCEPT ![a] = "failed"]
  /\ discover' = "dead"
  /\ UNCHANGED <<readVars, from, toRead, objectList, present, device_configurations,
                 complete, made, taskVars>>

----------------------------------------------------------------------------
(* config_to_tasks: one item, and it sleeps.                                *)

Run(p, config, first_run) ==
  passes' = [passes EXCEPT ![p] = [device |-> config.device,
                                   left |-> Passes(config.lists, config.device, first_run)]]

\* One phase after the other.
Through(p, k) == \A j \in 1..k : Items(passes[p].left[j].items) = {}

Created(p, k, item) ==
  LET x == <<passes[p].device, item>>
  IN  /\ IF passes[p].left[k].kind = "cov"
           THEN subscribed' = subscribed \cup {x} /\ UNCHANGED polls
           \* create_poll_task; no task of the name it is asked for ever exists
           ELSE /\ polls' = IF x \in present THEN [polls EXCEPT ![x] = @ + 1] ELSE polls
                /\ UNCHANGED subscribed
      /\ passes' = [passes EXCEPT ![p].left[k].items[item] = @ - 1]

CreateTask(p) ==
  /\ passes[p] # None
  /\ \E k \in 1..Len(passes[p].left) :
       /\ Through(p, k - 1)
       /\ \E item \in Items(passes[p].left[k].items) : Created(p, k, item)
  /\ UNCHANGED <<readVars, handlingVars, mainVars, rereads>>

PassEnds(p) ==
  /\ passes[p] # None
  /\ Through(p, Len(passes[p].left))
  /\ passes' = [passes EXCEPT ![p] = None]
  /\ UNCHANGED <<readVars, handlingVars, mainVars, rereads, subscribed, polls>>

----------------------------------------------------------------------------
(* discover_devices, after gather.                                          *)

Completes ==
  /\ discover = "gathering"
  /\ \A a \in Answers : handling[a] = "configured"
  /\ complete' = TRUE
  /\ discover' = "generating"
  /\ UNCHANGED <<readVars, handlingVars, device_configurations, made, taskVars>>

MakeNext ==
  /\ discover = "generating"
  /\ passes[Main] = None
  /\ IF made = Len(device_configurations)
       THEN discover' = "done" /\ UNCHANGED <<made, passes>>
       ELSE /\ made' = made + 1
            /\ Run(Main, device_configurations[made + 1], TRUE)
            /\ UNCHANGED discover
  /\ UNCHANGED <<readVars, handlingVars, device_configurations, complete,
                 rereads, subscribed, polls>>

\* do_IAmRequest.  Before discovery is complete it does nothing; of a device
\* that has no configuration retrieve_config raises.
IAm(p, d) ==
  /\ p \in Handlers /\ passes[p] = None
  /\ complete
  /\ rereads[d] < Cardinality(Handlers)
  /\ LET found == {i \in 1..Len(device_configurations) : device_configurations[i].device = d}
     IN  \E i \in found : /\ \A j \in found : i <= j
                          /\ Run(p, device_configurations[i], FALSE)
  /\ rereads' = [rereads EXCEPT ![d] = @ + 1]
  /\ UNCHANGED <<readVars, handlingVars, mainVars, subscribed, polls>>

----------------------------------------------------------------------------
ReadStep ==
  /\ \E r \in Reads : Answer(r)
  /\ UNCHANGED <<handlingVars, mainVars, taskVars>>

Handle(a) ==
  \/ ReadDevice(a) \/ DeviceRead(a) \/ ListObject(a) \/ ReadObjects(a)
  \/ Configure(a) \/ HandleFails(a)

Discover == Gather \/ Completes \/ MakeNext
ConfigToTasks(p) == CreateTask(p) \/ PassEnds(p)

DiscoveryNext ==
  \/ Discover
  \/ ReadStep
  \/ \E a \in Answers : Handle(a)
  \/ \E p \in Runners : ConfigToTasks(p)
  \/ \E p \in Handlers, d \in Devices : IAm(p, d)

DiscoverySpec == DiscoveryInit /\ [][DiscoveryNext]_discoveryVars

\* Requests are answered or time out, and the event loop runs something of what
\* is ready; I-Ams need not come.  No step but these is asked for: they cannot go
\* on for ever.
DiscoveryFairness ==
  WF_discoveryVars(\/ Discover \/ ReadStep
                   \/ \E a \in Answers : Handle(a)
                   \/ \E p \in Runners : ConfigToTasks(p))

DiscoveryFairSpec == DiscoverySpec /\ DiscoveryFairness

----------------------------------------------------------------------------
(* Properties.                                                              *)

Idle == requests = <<>>

\* However reads fall back, fail, raise and share the permits, discovery gets
\* through, or ends with the first device that failed; and every permit comes
\* back, those of requests nobody waits for any more included.
DiscoveryEnds ==
  (discover = "gathering")
    ~> (Idle /\ (discover = "done" \/ \E a \in Answers : handling[a] = "failed"))

\* When I-Ams are listened to, every device that answered has its configuration.
CompleteIsConfigured ==
  complete => \A a \in Answers : \E i \in 1..Len(device_configurations) :
                device_configurations[i].device = from[a]

\* An object does not get more poll tasks than its device has answered, or has
\* announced itself and is to be read again, times the writings of the object in
\* one of the poll lists: being in the first list, the second and the third, or
\* in "all" and by name, makes no more of them.  (That a reread makes them again,
\* though config_to_tasks looks for a task of the same name, is what it does.)
NoExtraPolls ==
  \A x \in Places :
    LET d == x[1]
        again == IF ConfigOf[d].reread_on_iam THEN rereads[d] ELSE 0
    IN  polls[x] <= (Cardinality({a \in Answers : from[a] = d}) + again) * Times[x]

\* Once discovery is done every object asked for is subscribed to or polled,
\* but for one that could not be read, and one listed for CoV whose type cannot
\* be subscribed to: if it is in the quick polls too, the subscription it does not
\* get has taken them away, and quick polls the slow ones.
EverythingAskedIsServed ==
  discover = "done" =>
    \A a \in Answers :
      LET d == from[a]
          lists == ConfigOf[d]
          known == objectList[d] \ Ignored
          cov == Items(AllToObjects(lists.cov, known))
          quick == Items(AllToObjects(lists.quick, known))
          slow == Items(AllToObjects(lists.slow, known))
      IN  \A o \in Eligible(Asked(lists, known), d) \cap Objects :
            \/ <<d, o>> \in subscribed \/ polls[d, o] > 0
            \/ <<d, o>> \notin present
            \/ o \in cov \ Subscribable /\ (o \in quick \/ o \notin slow)
=============================================================================
