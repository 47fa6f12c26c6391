---------------------------- MODULE DocumentSync ----------------------------
(***************************************************************************)
(* One Session's transcript on its way to the browser: pi's entry list, the *)
(* Document the Manager projects it to (core/projection.ts), the patches    *)
(* and the initial sync that carry the Document to attached tabs            *)
(* (core/sync.ts), each tab's mirror, and the entry cache the tabs share    *)
(* (core/cache.ts and the web client's write-through).                      *)
(*                                                                         *)
(* An entry is an id with its parent and a body; bodies are the number of   *)
(* streamed updates, and Final once pi stored the entry.  Status is the     *)
(* leaf.  An action is one event handler, verb or frame with everything it  *)
(* does before it returns; the patches one handler emits are one frame.     *)
(***************************************************************************)
EXTENDS Naturals, Sequences, FiniteSets

CONSTANTS Tabs,        \* the browser's tabs
          None,
          MaxEntries,  \* bound: entry ids pi hands out
          MaxUpdates,  \* bound: streamed updates of one item
          MaxWire,     \* bound: frames on their way to one tab
          MaxWrites,   \* bound: cache writes one tab has pending
          MaxLosses    \* bound: lost sockets and Worker crashes together

ASSUME Bounds == /\ {MaxEntries, MaxWire, MaxWrites} \subseteq Nat \ {0}
                 /\ {MaxUpdates, MaxLosses} \subseteq Nat

VARIABLES
  file,      \* pi's entry list, in file order: [id, parent]
  piLeaf,    \* the leaf pi selects
  nextId,    \* the next id pi reserves
  open,      \* items in flight: reserved, started, not stored
  up,        \* the Worker runs
  doc,       \* the Manager's Document
  live,      \* the ids of the projection's live forms
  position,  \* the projection's read position
  tab,       \* the tabs
  cache,     \* the shared cache: file position -> record
  losses

piVars  == <<file, piLeaf, nextId, open>>
docVars == <<doc, live, position>>
vars == <<piVars, up, docVars, tab, cache, losses>>

Ids   == 1..MaxEntries
Final == MaxUpdates + 1
Restrict2(f, S) == [x \in S |-> f[x]]
Put(f, g)       == [x \in DOMAIN f \cup DOMAIN g |-> IF x \in DOMAIN g THEN g[x] ELSE f[x]]
NoEntries == [x \in {} |-> None]
Empty     == [entries |-> NoEntries, leaf |-> None]

\* projectEntry: the stored entry at position o of the file.
Project(o) == [parent |-> file[o + 1].parent, sealed |-> TRUE, ord |-> o, body |-> Final]
\* The entries the file holds from position `from` on, by id.
Suffix(from) == [x \in {file[i].id : i \in from + 1..Len(file)} |->
                   Project(CHOOSE o \in 0..Len(file) - 1 : file[o + 1].id = x)]
LiveForm(parent) == [parent |-> parent, sealed |-> FALSE, ord |-> None, body |-> 0]

Init ==
  /\ file = <<>> /\ piLeaf = None /\ nextId = 1 /\ open = {}
  /\ up = TRUE /\ doc = Empty /\ live = {} /\ position = 0
  /\ tab = [t \in Tabs |-> [conn |-> "off", mirror |-> Empty, base |-> Empty,
                            cursor |-> 0, wire |-> <<>>, writes |-> <<>>, short |-> FALSE]]
  /\ cache = NoEntries /\ losses = 0

-----------------------------------------------------------------------------
(* The projection.                                                         *)

\* selectedPathOf: the ids on the path from id to the root, as far as entries
\* lead: the least set that has id and, with an entry, its parent.
PathOf(entries, id) ==
  LET ids == DOMAIN entries \cup {id} \cup {entries[x].parent : x \in DOMAIN entries}
      upward == {S \in SUBSET ids : id \in S /\ \A x \in S \cap DOMAIN entries : entries[x].parent \in S}
  IN {x \in ids \ {None} : \A S \in upward : x \in S}

\* The first ancestor of a live form that is not itself a live form.
Anchor(entries, forms, id) ==
  LET climb[n \in 0..MaxEntries] ==
        IF n = 0 THEN id
        ELSE IF climb[n-1] \in forms \cap DOMAIN entries THEN entries[climb[n-1]].parent ELSE climb[n-1]
  IN climb[MaxEntries]

\* effectiveLeaf: the newest live form attached to pi's selected path, or
\* pi's own leaf.  pi hands ids out in the order the forms are created in.
EffectiveLeaf(entries, forms, selected) ==
  LET attached == {x \in forms : Anchor(entries, forms, x) \in PathOf(entries, selected)}
  IN IF attached = {} THEN selected ELSE CHOOSE x \in attached : \A y \in attached : y <= x

\* settle: live forms that have no stored entry are dropped (with drop), then
\* refreshFrom: the appended suffix is installed over their live forms and the
\* leaf is selected from the one pi selects.  before is the Document the handler
\* has made so far.
Refresh(before, forms, drop, selected) ==
  LET dropped == IF drop THEN forms ELSE {}
      added   == Suffix(position)
      after   == Put(Restrict2(before.entries, DOMAIN before.entries \ dropped), added)
      left    == (forms \ dropped) \ DOMAIN added
  IN /\ doc' = [entries |-> after, leaf |-> EffectiveLeaf(after, left, selected)]
     /\ live' = left
     /\ position' = Len(file)

\* The ops that lead from one Document to another, as the handlers push them:
\* the entries added or replaced, the ones removed, the leaf.
Patch(from, to) ==
  [kind |-> "patch",
   put  |-> Restrict2(to.entries, {x \in DOMAIN to.entries :
              x \in DOMAIN from.entries => from.entries[x] # to.entries[x]}),
   del  |-> DOMAIN from.entries \ DOMAIN to.entries,
   leaf |-> to.leaf]

\* emitPatch: to every registered connection, when there is something to say.
Publish ==
  /\ \A t \in Tabs : Len(tab[t].wire) < MaxWire
  /\ tab' = IF doc' = doc THEN tab
            ELSE [t \in Tabs |-> IF tab[t].conn # "on" THEN tab[t]
                                 ELSE [tab[t] EXCEPT !.wire = Append(@, Patch(doc, doc'))]]

Reserve == nextId <= MaxEntries /\ nextId' = nextId + 1

-----------------------------------------------------------------------------
(* pi's events, and what the Manager does with them.                       *)

\* message_start, tool_execution_start: the live form of a reserved id opens
\* under the leaf the Document shows.
MessageStart ==
  /\ up /\ Reserve
  /\ open' = open \cup {nextId}
  /\ Refresh([doc EXCEPT !.entries = Put(@, [x \in {nextId} |-> LiveForm(doc.leaf)])],
             live \cup {nextId}, FALSE, piLeaf)
  /\ Publish
  /\ UNCHANGED <<file, piLeaf, up, cache, losses>>

\* Bug: a delayed event writes an entry that already sealed.
MessageUpdateSealed(x) ==
  /\ up /\ x \in DOMAIN doc.entries
  /\ doc.entries[x].body < MaxUpdates \/ doc.entries[x].sealed
  /\ Refresh([doc EXCEPT !.entries[x].body = IF doc.entries[x].sealed THEN 0 ELSE @ + 1], live, FALSE, piLeaf)
  /\ Publish
  /\ UNCHANGED <<piVars, up, cache, losses>>

\* message_update, tool_execution_update: only a live form is written, however
\* late the event is.
MessageUpdate(x) ==
  /\ up /\ x \in DOMAIN doc.entries
  /\ ~doc.entries[x].sealed /\ doc.entries[x].body < MaxUpdates
  /\ Refresh([doc EXCEPT !.entries[x].body = @ + 1], live, FALSE, piLeaf)
  /\ Publish
  /\ UNCHANGED <<piVars, up, cache, losses>>

\* message_end: listeners first, then pi stores the entry under its leaf.
MessageEnd(x) ==
  /\ up /\ x \in open
  /\ Refresh(doc, live, FALSE, piLeaf)
  /\ Publish
  /\ file' = Append(file, [id |-> x, parent |-> piLeaf])
  /\ piLeaf' = x /\ open' = open \ {x}
  /\ UNCHANGED <<nextId, up, cache, losses>>

\* An entry no event announces: a label, an extension's entry.
SilentAppend ==
  /\ up /\ Reserve
  /\ file' = Append(file, [id |-> nextId, parent |-> piLeaf])
  /\ piLeaf' = nextId
  /\ UNCHANGED <<open, up, docVars, tab, cache, losses>>

\* Any other event, turn_end's boundaryReconcile, the tryReconcile of an idle
\* Session's verbs and of a removed connection: a refresh.
OtherEvent ==
  /\ up /\ Len(file) # position
  /\ Refresh(doc, live, FALSE, piLeaf)
  /\ Publish
  /\ UNCHANGED <<piVars, up, cache, losses>>

\* Bug: the forms that will never be stored are dropped and the leaf stays.
AgentSettledKeepsLeaf ==
  /\ up /\ open' = {}
  /\ live # {} \/ open # {}
  /\ doc' = [entries |-> Put(Restrict2(doc.entries, {x \in DOMAIN doc.entries : doc.entries[x].sealed}),
                             Suffix(position)), leaf |-> doc.leaf]
  /\ live' = {} /\ position' = Len(file)
  /\ Publish
  /\ UNCHANGED <<file, piLeaf, nextId, up, cache, losses>>

\* agent_settled: what is still in flight will never be stored.
AgentSettled ==
  /\ up /\ open' = {}
  /\ live # {} \/ open # {}
  /\ Refresh(doc, live, TRUE, piLeaf)
  /\ Publish
  /\ UNCHANGED <<file, piLeaf, nextId, up, cache, losses>>

\* navigate, of an idle Session: branch or resetLeaf, then tryReconcile, which
\* reads the leaf pi has just moved.
Navigate(x) ==
  /\ up /\ open = {} /\ live = {}
  /\ x \in {file[i].id : i \in 1..Len(file)} \cup {None}
  /\ piLeaf' = x
  /\ Refresh(doc, live, TRUE, x)
  /\ Publish
  /\ UNCHANGED <<file, nextId, open, up, cache, losses>>

-----------------------------------------------------------------------------
(* Attach and initial sync.                                                *)

\* computeCursor: the number of records, when they cover 0..n-1.
Cursor == IF DOMAIN cache = 0..Cardinality(DOMAIN cache) - 1 THEN Cardinality(DOMAIN cache) ELSE 0
\* seedDocument: the cached entries; the leaf is the last of them.
SeedEntries == [x \in {cache[o].id : o \in DOMAIN cache} |->
                  LET o == CHOOSE o \in DOMAIN cache : cache[o].id = x
                  IN [parent |-> cache[o].parent, sealed |-> TRUE, ord |-> o, body |-> Final]]
Seed == [entries |-> SeedEntries,
         leaf |-> IF DOMAIN cache = {} THEN None
                  ELSE cache[CHOOSE o \in DOMAIN cache : \A p \in DOMAIN cache : p <= o].id]

\* A boot or reconnect prepares: the cursor comes from the cache, the mirror
\* from the Document the page still renders, if any, or from the cache.  short
\* records that the cursor counts an entry which that Document has not sealed.
Prepare(t) ==
  /\ up /\ tab[t].conn = "off"
  /\ LET memory == tab[t].base
         seed == IF memory.entries # NoEntries THEN memory ELSE Seed
         sealed == {x \in DOMAIN seed.entries : seed.entries[x].sealed}
     IN tab' = [tab EXCEPT ![t].conn = "opening", ![t].mirror = seed, ![t].base = seed,
                  ![t].cursor = Cursor,
                  ![t].short = \E o \in 0..Cursor - 1 : cache[o].id \notin sealed]
  /\ UNCHANGED <<piVars, up, docVars, cache, losses>>

\* validateCursor compares the length and the anchor; the cached anchor of a
\* cursor is the id at its last position, and ids are never reused.
Valid(cursor) == cursor > 0 /\ cursor <= Len(file)

\* buildInitialSync, on the Document the attach has refreshed.
InitialSync(to, cursor) ==
  LET missing == {x \in DOMAIN to.entries : to.entries[x].sealed => to.entries[x].ord >= cursor}
  IN IF Valid(cursor)
     THEN [kind |-> "delta", put |-> Restrict2(to.entries, missing), del |-> {}, leaf |-> to.leaf]
     ELSE [kind |-> "replace", put |-> to.entries, del |-> {}, leaf |-> to.leaf]

\* Bug: the attach registers the connection but does not publish what its
\* refresh found to the tabs that are attached already.
AttachUnpublished(t) ==
  /\ up /\ tab[t].conn = "opening"
  /\ \A u \in Tabs : Len(tab[u].wire) < MaxWire
  /\ Refresh(doc, live, FALSE, piLeaf)
  /\ tab' = [tab EXCEPT ![t].conn = "on", ![t].wire = <<InitialSync(doc', tab[t].cursor)>>]
  /\ UNCHANGED <<piVars, up, cache, losses>>

\* addConnection: refresh, publish to those attached, register, sync.
Attach(t) ==
  /\ up /\ tab[t].conn = "opening"
  /\ \A u \in Tabs : Len(tab[u].wire) < MaxWire
  /\ Refresh(doc, live, FALSE, piLeaf)
  /\ tab' = [u \in Tabs |->
       IF u = t THEN [tab[t] EXCEPT !.conn = "on", !.wire = <<InitialSync(doc', tab[t].cursor)>>]
       ELSE IF tab[u].conn = "on" /\ doc' # doc
            THEN [tab[u] EXCEPT !.wire = Append(@, Patch(doc, doc'))]
            ELSE tab[u]]
  /\ UNCHANGED <<piVars, up, cache, losses>>

-----------------------------------------------------------------------------
(* The tabs.                                                               *)

\* applyReplace, applyPatch.
Apply(m, f) ==
  IF f.kind = "replace" THEN [entries |-> f.put, leaf |-> f.leaf]
  ELSE [entries |-> Put(Restrict2(m.entries, DOMAIN m.entries \ f.del), f.put), leaf |-> f.leaf]

\* Bug: live forms are cached too, at the position they would take next.
RecordsOfLive(entries) ==
  LET stored == {y \in DOMAIN entries : entries[y].sealed}
      place(y) == IF entries[y].sealed THEN entries[y].ord ELSE Cardinality(stored)
  IN [o \in {place(x) : x \in DOMAIN entries} |->
        LET x == CHOOSE y \in DOMAIN entries : place(y) = o
        IN [id |-> x, parent |-> entries[x].parent]]

\* cacheRecordsOfDocument: the sealed entries, by position.
Records(entries) ==
  [o \in {entries[x].ord : x \in {y \in DOMAIN entries : entries[y].sealed}} |->
     LET x == CHOOSE y \in DOMAIN entries : entries[y].sealed /\ entries[y].ord = o
     IN [id |-> x, parent |-> entries[x].parent]]

\* planCacheWrites: the sealed entries that differ from the base.
Planned(base, m) ==
  Records(Restrict2(m.entries, {x \in DOMAIN m.entries :
    x \in DOMAIN base.entries => base.entries[x] # m.entries[x]}))

\* A frame arrives.  A replace rewrites the Session's cache; an initial delta
\* and a flushed live patch write what is new.  The base moves on at once, the
\* write lands later.
Receive(t) ==
  /\ tab[t].conn = "on" /\ tab[t].wire # <<>> /\ Len(tab[t].writes) < MaxWrites
  /\ LET f == Head(tab[t].wire)
         m == Apply(tab[t].mirror, f)
         w == IF f.kind = "replace" THEN [repair |-> TRUE, records |-> Records(m.entries)]
              ELSE [repair |-> FALSE, records |-> Planned(tab[t].base, m)]
     IN tab' = [tab EXCEPT ![t].mirror = m, ![t].base = m, ![t].wire = Tail(@),
                           ![t].writes = IF w.repair \/ DOMAIN w.records # {} THEN Append(@, w) ELSE @]
  /\ UNCHANGED <<piVars, up, docVars, cache, losses>>

\* writeEntries, replaceSession: one transaction each, in order.
WriteLands(t) ==
  /\ tab[t].writes # <<>>
  /\ LET w == Head(tab[t].writes)
     IN cache' = IF w.repair THEN w.records ELSE Put(cache, w.records)
  /\ tab' = [tab EXCEPT ![t].writes = Tail(@)]
  /\ UNCHANGED <<piVars, up, docVars, losses>>

\* A failed transaction is swallowed and changes nothing.
WriteFails(t) ==
  /\ tab[t].writes # <<>>
  /\ tab' = [tab EXCEPT ![t].writes = Tail(@)]
  /\ UNCHANGED <<piVars, up, docVars, cache, losses>>

Disconnected(r) == [r EXCEPT !.conn = "off", !.wire = <<>>, !.writes = <<>>]

\* The socket is lost: what was on the wire is gone, and the frozen pipeline
\* writes nothing more.
Lose(t) ==
  /\ tab[t].conn # "off" /\ losses < MaxLosses
  /\ losses' = losses + 1
  /\ tab' = [tab EXCEPT ![t] = Disconnected(@)]
  /\ UNCHANGED <<piVars, up, docVars, cache>>

\* The page is reloaded: the rendered Document goes too.
Reload(t) ==
  /\ tab[t].conn # "off" /\ losses < MaxLosses
  /\ losses' = losses + 1
  /\ tab' = [tab EXCEPT ![t] = [Disconnected(@) EXCEPT !.mirror = Empty, !.base = Empty]]
  /\ UNCHANGED <<piVars, up, docVars, cache>>

\* The Worker dies: its Document and everything in flight go, the file stays.  A
\* Session that has no conversation yet has no file either: after a crash it is
\* gone, not reopened, so Restart continues only behaviours that wrote theirs.
Crash ==
  /\ up /\ losses < MaxLosses
  /\ losses' = losses + 1
  /\ up' = FALSE /\ open' = {}
  /\ doc' = Empty /\ live' = {} /\ position' = 0
  /\ tab' = [t \in Tabs |-> Disconnected(tab[t])]
  /\ UNCHANGED <<file, piLeaf, nextId, cache>>

\* The Session is opened again from its file; its last entry is the leaf.
Restart ==
  /\ ~up /\ up' = TRUE
  /\ piLeaf' = IF file = <<>> THEN None ELSE file[Len(file)].id
  /\ doc' = [entries |-> Suffix(0), leaf |-> piLeaf']
  /\ position' = Len(file)
  /\ UNCHANGED <<file, nextId, open, live, tab, cache, losses>>

Next ==
  \/ MessageStart \/ SilentAppend \/ OtherEvent \/ AgentSettled
  \/ \E x \in Ids : MessageUpdate(x) \/ MessageEnd(x)
  \/ \E x \in Ids \cup {None} : Navigate(x)
  \/ \E t \in Tabs : Prepare(t) \/ Attach(t) \/ Receive(t) \/ WriteLands(t)
                     \/ WriteFails(t) \/ Lose(t) \/ Reload(t)
  \/ Crash \/ Restart

Spec == Init /\ [][Next]_vars

-----------------------------------------------------------------------------
\* What a tab's mirror will be once the frames on its way have arrived.
Arriving(t) ==
  LET at[n \in 0..Len(tab[t].wire)] ==
        IF n = 0 THEN tab[t].mirror ELSE Apply(at[n-1], tab[t].wire[n])
  IN at[Len(tab[t].wire)]

\* Tab t will show the Document's leaf and every entry of it, and whatever
\* else it holds is a live form the Document no longer has.
Whole(t) ==
  /\ Arriving(t).leaf = doc.leaf
  /\ \A x \in DOMAIN doc.entries :
       x \in DOMAIN Arriving(t).entries /\ Arriving(t).entries[x] = doc.entries[x]
  /\ \A x \in DOMAIN Arriving(t).entries \ DOMAIN doc.entries : ~Arriving(t).entries[x].sealed

\* "their mirrors must not miss entries the refresh consumes" (manager.ts): an
\* attached tab ends up whole, whatever it attached with and whoever else
\* attached meanwhile, unless it reconnected with a Document shorter than its
\* cursor.
MirrorHasDocument == \A t \in Tabs : tab[t].conn = "on" /\ ~tab[t].short => Whole(t)

\* "Either form repairs the mirror's authority" (docs/architecture.md): every
\* attached tab ends up whole.
EitherFormRepairs == \A t \in Tabs : tab[t].conn = "on" => Whole(t)

\* "a delayed stream cannot overwrite persisted content", nor can a refresh,
\* a settle or a branch: an entry the Document has sealed is never changed or
\* removed while the Worker lives.
SealedStays ==
  [][up' => \A x \in DOMAIN doc.entries : doc.entries[x].sealed =>
       x \in DOMAIN doc'.entries /\ doc'.entries[x] = doc.entries[x]]_vars

\* "Cache absence, corruption, or a stale cursor changes performance only":
\* whatever was written by which tab, and whichever writes failed, a cached
\* record is the entry the file holds at its position.
CacheIsFile ==
  \A o \in DOMAIN cache : o < Len(file) /\ file[o + 1] = cache[o]

\* The Document always shows a whole branch: from its leaf, live or stored,
\* the parents lead to the root without leaving the Document, through settles,
\* silent appends and branches.
LeafIsRooted ==
  doc.leaf # None => PathOf(doc.entries, doc.leaf) \subseteq DOMAIN doc.entries
=============================================================================
