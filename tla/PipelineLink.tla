----------------------------- MODULE PipelineLink -----------------------------
(***************************************************************************)
(* How the application puts a pipeline together (lib/audio_pipeline/       *)
(* audio_pipeline.c): elements are registered, linked by rings, listened   *)
(* to, unlinked and linked anew, while nothing runs. A link gives up where *)
(* it does not know a name or gets no ring, and leaves what it has done.   *)
(* A ring is the number of the place its memory is in, 0 is none.          *)
(***************************************************************************)
EXTENDS Integers, Sequences, FiniteSets, SequencesExt

CONSTANTS
  Elements,   \* the elements of the application
  Chains,     \* the lists of elements it passes
  MaxSetUps   \* bound: the calls it makes

ASSUME ElementsAssumption == IsFiniteSet(Elements)
ASSUME ChainsAssumption == \A c \in Chains : c \in Seq(Elements) /\ c # <<>> /\ IsInjective(c)

VARIABLES
  line,     \* items, of el_list; rbs, of rb_list; linked; listener, whether it has one
  ends,     \* of each element: in and out, its rings; tag, whether it has one
  listens,  \* els, the elements in the listener's listening_queues; twice, one of them is there a second time
  rings,    \* the rings that exist
  wish      \* history: chain, linked last; clean, no other item is linked; strays, the elements that could not be
            \* taken from the listener; lost, the rings nobody will destroy; calls, for the bound

links == <<line, ends, listens, rings, wish>>

Item(on) == [e \in Elements |-> [el |-> e, linked |-> on]]
Items(chain, on) == [i \in DOMAIN chain |-> Item(on)[chain[i]]]
NewLine == [items |-> <<>>, rbs |-> <<>>, linked |-> FALSE, listener |-> FALSE]
\* The application has registered none of its elements yet, or each.
LinkInit ==
  /\ \E els \in {<<>>, SetToSeq(Elements)} :
       /\ line = [NewLine EXCEPT !.items = Items(els, FALSE)]
       /\ ends = [e \in Elements |-> [in |-> 0, out |-> 0, tag |-> els # <<>>]]
  /\ listens = [els |-> {}, twice |-> FALSE] /\ rings = {}
  /\ wish = [chain |-> <<>>, clean |-> TRUE, strays |-> {}, lost |-> {}, calls |-> 0]

-----------------------------------------------------------------------------
Els(items) == {x.el : x \in Range(items)}
FirstOf(items, e) == SelectInSeq(items, LAMBDA x : x.el = e)
\* audio_pipeline_unregister_element takes out every item of an element.
Without(items, els) ==
  LET kept[n \in 0..Len(items)] ==
        IF n = 0 THEN <<>> ELSE IF items[n].el \in els THEN kept[n - 1] ELSE Append(kept[n - 1], items[n])
  IN kept[Len(items)]
Dropped(e) == IF FirstOf(line.items, e) = 0 THEN line.items ELSE RemoveAt(line.items, FirstOf(line.items, e))

MaySetUp == wish.calls < MaxSetUps
Wish(clean, strays) == wish' = [wish EXCEPT !.calls = @ + 1, !.clean = @ /\ clean, !.strays = @ \cup strays]

\* audio_pipeline_register; the element is unregistered first.
Register(e) ==
  /\ MaySetUp
  /\ line' = [line EXCEPT !.items = Append(Dropped(e), Item(FALSE)[e])]
  /\ ends' = [ends EXCEPT ![e].tag = TRUE]
  /\ Wish(~line.linked, {})
  /\ UNCHANGED <<listens, rings>>
\* audio_pipeline_unregister leaves its queue with the listener.
Unregister(e) ==
  /\ MaySetUp
  /\ line' = [line EXCEPT !.items = Dropped(e)]
  /\ ends' = [ends EXCEPT ![e].tag = FALSE]
  /\ Wish(~line.linked, {e} \cap listens.els)
  /\ UNCHANGED <<listens, rings>>
\* audio_pipeline_register_more links what it registers, to nothing.
RegisterMore(chain) ==
  /\ MaySetUp
  /\ line' = [line EXCEPT !.items = @ \o Items(chain, TRUE)]
  /\ Wish(FALSE, {})
  /\ UNCHANGED <<ends, listens, rings>>
UnregisterMore(chain) ==
  /\ MaySetUp
  /\ line' = [line EXCEPT !.items = Without(@, Range(chain))]
  /\ Wish(~line.linked, Range(chain) \cap listens.els)
  /\ UNCHANGED <<ends, listens, rings>>

-----------------------------------------------------------------------------
(* The listener. A queue that is twice in its list fails every change of it, from the second on. *)

\* audio_pipeline_remove_listener: what is left of the list, and whether the pipeline still has a listener.
Silenced ==
  IF line.listener /\ ~listens.twice THEN [listens EXCEPT !.els = @ \ Els(line.items)] ELSE listens
StillHeard == line.listener /\ listens.twice
RemoveListener ==
  /\ MaySetUp
  /\ listens' = Silenced
  /\ line' = [line EXCEPT !.listener = StillHeard]
  /\ Wish(TRUE, {})
  /\ UNCHANGED <<ends, rings>>

\* audio_pipeline_set_listener gives up at the first element that is in the list already.
SetListener ==
  LET el(i) == line.items[i].el
      again == {i \in DOMAIN line.items : el(i) \in Silenced.els \/ \E j \in 1..(i - 1) : el(j) = el(i)}
      added == {el(i) : i \in {j \in DOMAIN line.items : \A k \in again : j <= k}}
      done == ~Silenced.twice /\ again = {}
  IN /\ MaySetUp
     /\ listens' = IF Silenced.twice THEN listens ELSE [els |-> Silenced.els \cup added, twice |-> ~done]
     /\ line' = [line EXCEPT !.listener = done \/ StillHeard]
     /\ Wish(TRUE, IF done THEN {} ELSE Els(line.items))
     /\ UNCHANGED <<ends, rings>>

-----------------------------------------------------------------------------
\* audio_pipeline_unlink; the setters of the elements ignore NULL.
UnlinkedLine ==
  [line EXCEPT !.items = [i \in DOMAIN @ |-> [@[i] EXCEPT !.linked = FALSE]], !.rbs = <<>>, !.linked = FALSE, !.listener = StillHeard]
Unlinked == IF line.linked THEN UnlinkedLine ELSE line
UnlinkedListens == IF line.linked THEN Silenced ELSE listens
UnlinkedRings == IF line.linked THEN rings \ Range(line.rbs) ELSE rings
Cleaned == line.linked \/ wish.clean
Unlink ==
  /\ MaySetUp
  /\ line' = Unlinked /\ listens' = UnlinkedListens /\ rings' = UnlinkedRings
  /\ wish' = [wish EXCEPT !.calls = @ + 1, !.clean = Cleaned]
  /\ UNCHANGED ends

\* audio_pipeline_deinit, and a pipeline for the next try.
Deinit ==
  /\ MaySetUp
  /\ line' = NewLine /\ listens' = UnlinkedListens /\ rings' = UnlinkedRings
  /\ wish' = [wish EXCEPT !.calls = @ + 1, !.clean = TRUE, !.strays = @ \cup UnlinkedListens.els,
                          !.lost = IF Cleaned THEN @ ELSE @ \cup UnlinkedRings]
  /\ UNCHANGED ends

\* The rings rb_create returns, in places behind those that are taken.
NewRing(taken, i) == Max(taken \cup {0}) + i
NewRings(made) == [i \in 1..made |-> NewRing(UnlinkedRings, i)]

\* The first elements of a chain that a call gets to are linked, and joined by as many rings as it got.
Joins(chain, reads, made) ==
  [e \in Elements |->
     LET i == SelectInSeq(chain, LAMBDA x : x = e)
     IN [ends[e] EXCEPT !.in = IF i \in 2..reads THEN NewRing(UnlinkedRings, i - 1) ELSE @,
                        !.out = IF i \in 1..made THEN NewRing(UnlinkedRings, i) ELSE @]]
\* Fault: an element without a ring to write gets none to read.
JoinedShort(chain, reached, made) == Joins(chain, made, made)
Joined(chain, reached, made) == Joins(chain, reached, made)
LinksTo(chain, items, reached, made) ==
  LET done == reached = Len(chain)
  IN /\ line' = [Unlinked EXCEPT !.items = items, !.rbs = @ \o NewRings(made), !.linked = done]
     /\ listens' = UnlinkedListens
     /\ rings' = UnlinkedRings \cup Range(NewRings(made))
     /\ ends' = Joined(chain, reached, made)
     /\ wish' = [wish EXCEPT !.calls = @ + 1, !.chain = IF done THEN chain ELSE <<>>,
                             !.clean = Cleaned /\ (done \/ reached = 0)]

\* A call gets through, finds no ring for one of its elements, or stops before one.
Reaches(chain) ==
  {[reached |-> Len(chain), made |-> Len(chain) - 1]}
    \cup {[reached |-> j, made |-> j - 1] : j \in 1..(Len(chain) - 1)}
Stops(j) == [reached |-> j - 1, made |-> j - 1]

Known(e) == ends[e].tag /\ FirstOf(line.items, e) # 0
Linked(chain, reached) ==
  [i \in DOMAIN Unlinked.items |->
     LET x == Unlinked.items[i]
     IN [x EXCEPT !.linked = @ \/ (i = FirstOf(line.items, x.el) /\ Contains(SubSeq(chain, 1, reached), x.el))]]
\* audio_pipeline_link.
Link(chain) ==
  /\ MaySetUp
  /\ LET unknown == SelectInSeq(chain, LAMBDA e : ~Known(e))
     IN \E r \in IF unknown = 0 THEN Reaches(chain) ELSE {Stops(unknown)} :
          LinksTo(chain, Linked(chain, r.reached), r.reached, r.made)

\* audio_pipeline_link_more appends an item of its own for each element.
LinkMore(chain) ==
  /\ MaySetUp
  /\ \E r \in Reaches(chain) \cup {Stops(j) : j \in DOMAIN chain} :
       LinksTo(chain, Unlinked.items \o Items(SubSeq(chain, 1, r.reached), TRUE), r.reached, r.made)

\* audio_pipeline_link_insert: a chain is begun, or gets an element more; the ring comes from the caller.
LinkInsert(e, next) ==
  LET first == ~line.linked
      ring == NewRing(rings, 1)
  IN /\ MaySetUp /\ e # next
     /\ line.linked => e = Last(wish.chain) /\ ~Contains(wish.chain, next)
     /\ line' = [line EXCEPT !.items = @ \o Items(IF first THEN <<e, next>> ELSE <<next>>, TRUE),
                             !.rbs = Append(@, ring), !.linked = TRUE]
     /\ ends' = [ends EXCEPT ![e].out = ring, ![next].in = ring]
     /\ rings' = rings \cup {ring}
     /\ wish' = [wish EXCEPT !.calls = @ + 1, !.chain = IF first THEN <<e, next>> ELSE Append(@, next)]
     /\ UNCHANGED listens

LinkNext ==
  \/ \E e \in Elements : Register(e) \/ Unregister(e)
  \/ \E c \in Chains : RegisterMore(c) \/ UnregisterMore(c) \/ Link(c) \/ LinkMore(c)
  \/ \E e, next \in Elements : LinkInsert(e, next)
  \/ SetListener \/ RemoveListener \/ Unlink \/ Deinit

-----------------------------------------------------------------------------
\* However a pipeline came to be linked, each element of the chain reads the ring the one before it writes, a
\* ring of their own that exists, and just the elements of the chain are run; a call that failed half-way may
\* leave others linked. Every ring is destroyed in the end, once, unless a pipeline is given up after such a
\* call; and a pipeline without a listener has no queue left in one, but for those of elements unregistered
\* or listed twice meanwhile.
LinkKept ==
  /\ line.linked =>
       /\ \A i \in 1..(Len(wish.chain) - 1) :
            ends[wish.chain[i]].out = ends[wish.chain[i + 1]].in /\ ends[wish.chain[i]].out \in rings
       /\ IsInjective([i \in 1..(Len(wish.chain) - 1) |-> ends[wish.chain[i]].out])
       /\ wish.clean => {x.el : x \in {y \in Range(line.items) : y.linked}} = Range(wish.chain)
  /\ IsInjective(line.rbs) /\ rings = Range(line.rbs) \cup wish.lost
  /\ ~line.listener => listens.els \subseteq wish.strays
=============================================================================
