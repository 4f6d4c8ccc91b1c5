---------------------------- MODULE DeviceConfig ----------------------------
(***************************************************************************)
(* What the options of the add-on ask for, device by device: objects to    *)
(* subscribe to (CoV), to poll quickly and to poll slowly.  An entry of    *)
(* devices_setup is for one device or for "all"; a list of objects holds   *)
(* identifiers, or "all" alone.                                            *)
(*                                                                         *)
(* The order of the objects in a list is left out: a list is how often     *)
(* each item is written in it.  Rates and lifetimes are left out too.      *)
(***************************************************************************)
EXTENDS Naturals, Sequences

CONSTANTS
  Devices,       \* device objects, as the options name them
  Objects,       \* the other objects
  All,           \* "all"
  Ignored,       \* objects of object_types_to_ignore
  Subscribable,  \* objects of subscribable_objects
  Unknown,       \* objects whose type the vendor information does not know
  Entries        \* addon_device_config, a sequence of entries

Item == Devices \cup Objects

\* list[i]: how often i is written in it; nothing removes repetitions.
ListOfItems == [Item \cup {All} -> Nat]
Items(list) == {i \in DOMAIN list : list[i] > 0}
OnceEach(items) == [i \in Item \cup {All} |-> IF i \in items THEN 1 ELSE 0]
Without(list, items) == [i \in DOMAIN list |-> IF i \in items THEN 0 ELSE list[i]]

Lists == [cov : ListOfItems, quick : ListOfItems, slow : ListOfItems,
          resub_on_iam : BOOLEAN, reread_on_iam : BOOLEAN]

ASSUME ConfigAssumption ==
  /\ All \notin Item /\ Devices \cap Objects = {}
  /\ Ignored \subseteq Objects /\ Subscribable \subseteq Objects /\ Unknown \subseteq Objects
  /\ Entries \in Seq([deviceID : Devices \cup {All}, lists : Lists])

----------------------------------------------------------------------------
(* get_config_dict.                                                         *)

Default == [cov |-> OnceEach({}), quick |-> OnceEach({}), slow |-> OnceEach({}),
            resub_on_iam |-> FALSE, reread_on_iam |-> FALSE]

EntriesFor(id) == {i \in 1..Len(Entries) : Entries[i].deviceID = id}
FirstFor(id) == CHOOSE i \in EntriesFor(id) : \A j \in EntriesFor(id) : i <= j

\* The first entry of the device, else the first for all, else nothing.
ConfigOf ==
  [dev \in Devices |->
     IF EntriesFor(dev) # {} THEN Entries[FirstFor(dev)].lists
     ELSE IF EntriesFor(All) # {} THEN Entries[FirstFor(All)].lists
     ELSE Default]

----------------------------------------------------------------------------
(* generate_config.                                                         *)

\* "all" beside other items, or twice, is left as it is, and no object identifier.
IsAll(list) == list[All] = 1 /\ \A i \in Item : list[i] = 0
Mixed(list) == list[All] > 0 /\ ~IsAll(list)
Raises(lists) == Mixed(lists.cov) \/ Mixed(lists.quick) \/ Mixed(lists.slow)

\* all_to_objects.
AllToObjects(list, object_list) == IF IsAll(list) THEN OnceEach(object_list) ELSE list

\* list.remove, where the item is in the list: its first writing goes.
WithoutFirst(list, item) == [list EXCEPT ![item] = IF @ > 0 THEN @ - 1 ELSE 0]

\* Mutant: nothing is done about objects in both poll lists.
KeepSlow(lists, dev, object_list) ==
  LET cov == AllToObjects(lists.cov, object_list)
      quick == AllToObjects(lists.quick, object_list)
      slow == AllToObjects(lists.slow, object_list)
  IN  [lists EXCEPT !.cov = WithoutFirst(cov, dev),
                    !.quick = WithoutFirst(Without(quick, Items(cov)), dev),
                    !.slow = WithoutFirst(slow, dev)]

\* Mutant: either poll list gives way to the other.
PruneBothWays(lists, dev, object_list) ==
  LET cov == AllToObjects(lists.cov, object_list)
      quick == AllToObjects(lists.quick, object_list)
      slow == AllToObjects(lists.slow, object_list)
  IN  [lists EXCEPT !.cov = WithoutFirst(cov, dev),
                    !.quick = WithoutFirst(Without(quick, Items(cov) \cup Items(slow)), dev),
                    !.slow = WithoutFirst(Without(slow, Items(quick)), dev)]

\* remove_duplicate_slow_polls, then remove_duplicate_quick_polls: slow polls
\* give way to quick ones, and those to subscriptions.  The device object goes.
Generated(lists, dev, object_list) ==
  LET cov == AllToObjects(lists.cov, object_list)
      quick == AllToObjects(lists.quick, object_list)
      slow == AllToObjects(lists.slow, object_list)
  IN  [lists EXCEPT !.cov = WithoutFirst(cov, dev),
                    !.quick = WithoutFirst(Without(quick, Items(cov)), dev),
                    !.slow = WithoutFirst(Without(slow, Items(quick)), dev)]

----------------------------------------------------------------------------
(* config_to_tasks.                                                         *)

\* What is skipped wherever it is listed.
Skipped(dev) == Ignored \cup Unknown \cup {dev}
Eligible(items, dev) == items \ Skipped(dev)

\* The objects that get a subscription, and those that are polled; once for each
\* time they are written.
Wanted(list, dev) == [i \in Item |-> IF i \in Skipped(dev) THEN 0 ELSE list[i]]
ToSubscribe(config, dev) == Wanted(Without(config.cov, Item \ Subscribable), dev)
ToPollQuickly(config, dev) == Wanted(config.quick, dev)
ToPollSlowly(config, dev) == Wanted(config.slow, dev)

\* The order of the three: a first run does all of it, a later one what the
\* configuration asks for when the device announces itself.
Passes(config, dev, first_run) ==
  LET cov == <<[kind |-> "cov", items |-> ToSubscribe(config, dev)]>>
      polls == <<[kind |-> "poll", items |-> ToPollQuickly(config, dev)],
                 [kind |-> "poll", items |-> ToPollSlowly(config, dev)]>>
  IN  IF first_run THEN cov \o polls
      ELSE (IF config.reread_on_iam THEN polls ELSE <<>>)
           \o (IF config.resub_on_iam THEN cov ELSE <<>>)

----------------------------------------------------------------------------
(* What the lists of a device come to.                                      *)

\* Every object asked for, in whichever list.
Asked(lists, object_list) ==
  Items(AllToObjects(lists.cov, object_list)) \cup Items(AllToObjects(lists.quick, object_list))
    \cup Items(AllToObjects(lists.slow, object_list))

\* How often o is written in the poll list of d that writes it more often.
Times ==
  [x \in Devices \X Objects |->
     LET written(list) == IF IsAll(list) THEN 1 ELSE list[x[2]]
         quick == written(ConfigOf[x[1]].quick)
         slow == written(ConfigOf[x[1]].slow)
     IN  IF quick >= slow THEN quick ELSE slow]
=============================================================================
