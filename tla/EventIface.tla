----------------------------- MODULE EventIface -----------------------------
(***************************************************************************)
(* The event interface of a listener (lib/audio_pipeline/                  *)
(* audio_event_iface.c): sources send events into queues of their own; the *)
(* listener's queue set joins the queues it listens to, and is taken down  *)
(* and built again whenever a source is added or removed.                  *)
(*                                                                         *)
(* Sources send while the listener's task listens or changes what it       *)
(* listens to.  A change is cut where a source can send in between: after  *)
(* each event drained, each queue taken out of the set, each queue emptied *)
(* and each queue put in.  Selecting a queue from the set and receiving    *)
(* from it is one step: only the listener takes from the set.  An event is *)
(* its number among those its source has sent.                             *)
(***************************************************************************)
EXTENDS Integers, Sequences, FiniteSets, SequencesExt

CONSTANTS
  Sources,      \* the interfaces whose external queue may be listened to
  QueueLen,     \* places in an external queue
  FirstSet,     \* places in the set the listener is created with
  MaxEvents,    \* bound: events a source sends
  MaxChanges    \* bound: sources added and removed

ASSUME SourcesAssumption == IsFiniteSet(Sources)
ASSUME LengthsAssumption == QueueLen \in Nat \ {0} /\ FirstSet \in Nat
ASSUME BoundsAssumption  == MaxEvents \in Nat /\ MaxChanges \in Nat

VARIABLES
  queue,        \* external_queue of each source
  member,       \* the sources whose queue is in the set
  set,          \* what the set lists, oldest first
  cap,          \* places in the set; 0 when there is none
  list,         \* listening_queues
  task,         \* the listener's task: where it is in a change
  sent,         \* history: events accepted from each source
  since,        \* history: events accepted when the source was last added
  heard         \* history: events heard of each source since

vars == <<queue, member, set, cap, list, task, sent, since, heard>>
history == <<since, heard>>

Init ==
  /\ queue = [s \in Sources |-> <<>>]
  /\ member = {} /\ set = <<>> /\ cap = FirstSet /\ list = <<>>
  /\ task = [pc |-> "listens", ret |-> "OK", left |-> <<>>, next |-> <<>>,
             failed |-> FALSE, raced |-> FALSE, changes |-> 0]
  /\ sent = [s \in Sources |-> 0] /\ since = sent
  /\ heard = [s \in Sources |-> <<>>]

-----------------------------------------------------------------------------
(* The sources.                                                            *)

Changing == task.pc # "listens"

\* xQueueSend enters the queue in its set, where there is room for it.
Entered(s) == IF s \in member /\ Len(set) < cap THEN Append(set, s) ELSE set

Room(s) == Len(queue[s]) < QueueLen

\* audio_event_iface_sendout.
Sendout(s) ==
  /\ sent[s] < MaxEvents /\ Room(s)
  /\ queue' = [queue EXCEPT ![s] = Append(@, sent[s] + 1)]
  /\ sent' = [sent EXCEPT ![s] = @ + 1]
  /\ set' = Entered(s)
  /\ task' = [task EXCEPT !.raced = @ \/ Changing]
  /\ UNCHANGED <<member, cap, list, history>>

-----------------------------------------------------------------------------
(* The listener.                                                           *)

Receive(s) == queue' = [queue EXCEPT ![s] = Tail(@)]

\* audio_event_iface_listen, without a time-out.
Listen ==
  /\ ~Changing /\ set # <<>>
  /\ LET s == Head(set) IN
       /\ set' = Tail(set)
       /\ IF queue[s] # <<>>
          THEN /\ Receive(s)
               /\ heard' = [heard EXCEPT ![s] = Append(@, Head(queue[s]))]
               /\ task' = [task EXCEPT !.ret = "OK"]
          ELSE /\ task' = [task EXCEPT !.ret = "FAIL"]
               /\ UNCHANGED <<queue, heard>>
  /\ UNCHANGED <<member, cap, list, sent, since>>

\* The list without s, which is in it once.
Without(s) == RemoveAt(list, CHOOSE i \in DOMAIN list : list[i] = s)

\* audio_event_iface_set_listener and _remove_listener.
Change(s) ==
  /\ ~Changing /\ task.changes < MaxChanges
  /\ task' = [task EXCEPT !.pc = "drain", !.changes = @ + 1, !.raced = FALSE,
                !.next = IF Contains(list, s) THEN Without(s) ELSE Append(list, s)]
  /\ UNCHANGED <<queue, member, set, cap, list, sent, history>>

Fails == [task EXCEPT !.pc = "listens", !.ret = "FAIL", !.failed = TRUE]

\* Fault: nothing is drained.
DrainNot ==
  /\ task.pc = "drain"
  /\ task' = [task EXCEPT !.pc = "detach", !.left = list]
  /\ UNCHANGED <<queue, member, set, cap, list, sent, history>>

\* audio_event_iface_discard: until the set is empty, or lists a queue that is.
\* A listener created without a set never reads the one it is given later.
Drain ==
  /\ task.pc = "drain"
  /\ IF FirstSet # 0 /\ set # <<>>
     THEN set' = Tail(set)
     ELSE UNCHANGED set
  /\ IF FirstSet # 0 /\ set # <<>> /\ queue[Head(set)] # <<>>
     THEN Receive(Head(set)) /\ UNCHANGED task
     ELSE task' = [task EXCEPT !.pc = "detach", !.left = list] /\ UNCHANGED queue
  /\ UNCHANGED <<member, cap, list, sent, history>>

\* xQueueRemoveFromSet refuses a queue with events, and one that is not in.
Detach ==
  /\ task.pc = "detach" /\ task.left # <<>>
  /\ LET s == Head(task.left) IN
       IF cap # 0 => s \in member /\ queue[s] = <<>>
       THEN /\ member' = member \ {s}
            /\ task' = [task EXCEPT !.left = Tail(@)]
       ELSE task' = Fails /\ UNCHANGED member
  /\ UNCHANGED <<queue, set, cap, list, sent, history>>

\* Fault: the set has room for the sources there were.
NewSetStale == QueueLen * Len(list)

NewSet == QueueLen * Len(task.next)

\* The set is deleted, the list changed and a new set created.
Rebuild ==
  /\ task.pc = "detach" /\ task.left = <<>>
  /\ set' = <<>> /\ cap' = NewSet /\ list' = task.next
  /\ task' = [task EXCEPT !.pc = "empty", !.left = task.next]
  /\ UNCHANGED <<queue, member, sent, history>>

Empty ==
  /\ task.pc = "empty" /\ task.left # <<>>
  /\ queue' = [queue EXCEPT ![Head(task.left)] = <<>>]
  /\ task' = [task EXCEPT !.pc = "add"]
  /\ UNCHANGED <<member, set, cap, list, sent, history>>

Adds(s) ==
  /\ member' = member \cup {s}
  /\ task' = [task EXCEPT !.pc = "empty", !.left = Tail(@)]
  /\ since' = [since EXCEPT ![s] = sent[s] - Len(queue[s])]
  /\ heard' = [heard EXCEPT ![s] = <<>>]

\* xQueueAddToSet refuses a queue with events.
Add ==
  /\ task.pc = "add"
  /\ IF queue[Head(task.left)] = <<>>
     THEN Adds(Head(task.left))
     ELSE task' = Fails /\ UNCHANGED <<member, history>>
  /\ UNCHANGED <<queue, set, cap, list, sent>>

Changed ==
  /\ task.pc = "empty" /\ task.left = <<>>
  /\ task' = [task EXCEPT !.pc = "listens", !.ret = "OK"]
  /\ UNCHANGED <<queue, member, set, cap, list, sent, history>>

-----------------------------------------------------------------------------
Goes == Drain \/ Detach \/ Rebuild \/ Empty \/ Add \/ Changed

Next ==
  \/ \E s \in Sources : Sendout(s) \/ Change(s)
  \/ Listen \/ Goes

Spec == Init /\ [][Next]_vars

\* The listener's task listens again and again, and ends what it changes.
FairSpec == Spec /\ WF_vars(Listen) /\ WF_vars(Goes)

-----------------------------------------------------------------------------
(* Properties.                                                             *)

TypeOK ==
  /\ queue \in [Sources -> Seq(1 .. MaxEvents)]
  /\ \A s \in Sources : Len(queue[s]) <= QueueLen
  /\ member \subseteq Sources /\ set \in Seq(Sources) /\ cap \in Nat
  /\ list \in Seq(Sources) /\ Len(set) <= cap
  /\ task.pc \in {"listens", "drain", "detach", "empty", "add"}
  /\ task.left \in Seq(Sources) /\ task.next \in Seq(Sources)
  /\ sent \in [Sources -> 0 .. MaxEvents] /\ since \in [Sources -> 0 .. MaxEvents]
  /\ heard \in [Sources -> Seq(1 .. MaxEvents)]

Entries(s) == Cardinality({i \in DOMAIN set : set[i] = s})

\* The set lists the queue of every source in it exactly as often as there
\* are events in that queue, whatever the order of sends, changes and failed
\* changes: no event waits unlisted, and no listing wakes the listener for
\* nothing.  (While no source empties its own queue, as an element that is run
\* again does: README, Faults.)
Listed == \A s \in member : Entries(s) = Len(queue[s])

\* An event that finds a place in the queue of its source finds one in the
\* set, so xQueueSend never meets a full set.
SetHasRoom == \A s \in member : Room(s) => Len(set) < cap

\* Between changes, and until one has failed, the listener has heard of every
\* source it listens to all events sent since it was added, in order, but for
\* those still queued.
Complete ==
  ~Changing /\ ~task.failed =>
    \A s \in Range(list) :
      heard[s] \o queue[s] = [i \in 1 .. sent[s] - since[s] |-> since[s] + i]

\* A source is taken out of the set only to be put in again: once a change
\* has returned, every source in the list is listened to.
Attached == ~Changing /\ ~task.failed => member = Range(list)

\* The listener, its set and the queues of the sources keep in step.
InStep == TypeOK /\ Listed /\ SetHasRoom /\ Complete /\ Attached

\* A change fails only when a source has sent an event while it was made, or
\* an earlier change has failed.
FailsInRace == [][~task.failed /\ task'.failed => task.raced]_vars

\* audio_event_iface.h:101: "then we can listen `evt` event from `listen`".  An
\* event of a source in the set is heard, or drained by a change; it is not
\* left in the queue with a listener that sleeps.
Heard ==
  \A s \in Sources, e \in 1 .. MaxEvents :
    s \in member /\ queue[s] # <<>> /\ e = queue[s][1] /\ ~task.failed
      ~> queue[s] = <<>> \/ queue[s][1] # e \/ task.failed

\* Events of attached sources are heard, and only a race costs one of them its
\* place.
HeardUnlessRaced == FailsInRace /\ Heard
=============================================================================
