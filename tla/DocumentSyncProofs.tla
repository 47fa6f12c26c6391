------------------------- MODULE DocumentSyncProofs -------------------------
(***************************************************************************)
(* The Document, its mirrors and the cache, for any number of tabs,        *)
(* entries, updates and losses.                                            *)
(*                                                                         *)
(* Everything rests on the file: ids are handed out once and a parent is   *)
(* an earlier entry (FileIs).  A sealed copy of an entry, in the Document, *)
(* a mirror, a frame or a cache write, is the file's entry at its position *)
(* (Faithful, Copied), and stays so while the file grows.  The Document    *)
(* has sealed exactly the first `position' entries; what it holds unsealed *)
(* is its live forms, and its leaf and every parent are inside it (DocIs). *)
(* That refresh keeps this is RefreshIs.                                   *)
(*                                                                         *)
(* A mirror is behind by the frames on its way, so what is invariant is    *)
(* where they will take it: Course is the row of mirrors those frames will *)
(* produce, Tracks that its end is whole.  Arriving computes that end by   *)
(* recursion; carrying along that a course exists, and that every course   *)
(* ends whole, stands in for an induction over the frames.  The first      *)
(* frame is the initial sync: it makes the mirror whole because the        *)
(* entries its cursor counts are sealed in the mirror it is sent with      *)
(* (Covered).  The greatest element of a bounded set, which the newest     *)
(* live form is, comes from the well-foundedness of the numbers.           *)
(***************************************************************************)
EXTENDS DocumentSync, FiniteSetTheorems, WellFoundedInduction, TLAPS

\* What the variables range over.
Leaves == Ids \cup {None}
Entry  == [parent : Leaves, sealed : BOOLEAN, ord : Nat \cup {None}, body : Nat]
Maps   == UNION {[S -> Entry] : S \in SUBSET Ids}
Docs   == [entries : Maps, leaf : Leaves]
Rows   == [id : Ids, parent : Leaves]
Tables == UNION {[S -> Rows] : S \in SUBSET Nat}
Frames == [kind : {"patch", "delta", "replace"}, put : Maps, del : SUBSET Ids, leaf : Leaves]
Writes == [repair : BOOLEAN, records : Tables]

-----------------------------------------------------------------------------
(* The file.                                                               *)

FileIds(fl) == {fl[i].id : i \in 1..Len(fl)}

\* pi's list: ids are handed out once, and a parent is an earlier entry.
FileIs(fl, leaf, next, reserved) ==
  /\ fl \in Seq(Rows) /\ next \in Nat /\ next >= 1 /\ reserved \in SUBSET Ids
  /\ \A i \in 1..Len(fl) : /\ fl[i].id < next /\ fl[i].id \notin reserved
                           /\ fl[i].parent \in FileIds(fl) \cup {None}
  /\ \A x \in reserved : x < next
  /\ \A i, j \in 1..Len(fl) : fl[i].id = fl[j].id => i = j
  /\ leaf \in FileIds(fl) \cup {None}

\* What the file's entry at position o is projected to.
Stored(fl, o) == [parent |-> fl[o + 1].parent, sealed |-> TRUE, ord |-> o, body |-> Final]

\* A copy of entries has a sealed one only as the file has it.
Faithful(fl, E) ==
  \A x \in DOMAIN E : E[x].sealed =>
    \E o \in 0..(Len(fl) - 1) : E[x] = Stored(fl, o) /\ fl[o + 1].id = x

\* A table of records has the file's, by position.
Copied(fl, R) == \A o \in DOMAIN R : o \in 0..(Len(fl) - 1) /\ R[o] = fl[o + 1]

\* An id is a number, and so is the body of a finished entry.
LEMMA IdNumbers == Ids \subseteq Nat /\ Final \in Nat /\ None \in Leaves
  BY Bounds DEF Ids, Final, Leaves

\* A map of entries, without the union over its domains.
LEMMA MapForm == \A E : E \in Maps <=> E \in [DOMAIN E -> Entry] /\ DOMAIN E \in SUBSET Ids
  BY DEF Maps

\* A table of records, without the union over its domains.
LEMMA TableForm == \A R : R \in Tables <=> R \in [DOMAIN R -> Rows] /\ DOMAIN R \in SUBSET Nat
  BY DEF Tables

\* A file with one entry more.
LEMMA FileGrows ==
  ASSUME NEW fl \in Seq(Rows), NEW row \in Rows, NEW fl2, fl2 = Append(fl, row)
  PROVE  /\ fl2 \in Seq(Rows) /\ Len(fl2) = Len(fl) + 1 /\ Len(fl) \in Nat
         /\ \A i \in 1..Len(fl) : fl2[i] = fl[i]
         /\ fl2[Len(fl) + 1] = row
  OBVIOUS

\* The file only grows, so a copy of it stays one.
LEMMA FaithfulGrows ==
  ASSUME NEW fl \in Seq(Rows), NEW row \in Rows, NEW fl2, fl2 = Append(fl, row)
  PROVE  /\ \A E : Faithful(fl, E) => Faithful(fl2, E)
         /\ \A R : Copied(fl, R) => Copied(fl2, R)
<1>1. /\ Len(fl2) = Len(fl) + 1 /\ Len(fl) \in Nat
      /\ \A i \in 1..Len(fl) : fl2[i] = fl[i]
  BY FileGrows
<1>2. \A o \in 0..(Len(fl) - 1) : o \in 0..(Len(fl2) - 1) /\ o + 1 \in 1..Len(fl) /\ fl2[o + 1] = fl[o + 1]
  BY <1>1
<1>3. \A o \in 0..(Len(fl) - 1) : Stored(fl2, o) = Stored(fl, o)
  BY <1>2 DEF Stored
<1>4. ASSUME NEW E, Faithful(fl, E) PROVE Faithful(fl2, E)
  BY <1>2, <1>3, <1>4 DEF Faithful
<1>5. ASSUME NEW R, Copied(fl, R) PROVE Copied(fl2, R)
  BY <1>2, <1>5 DEF Copied
<1> QED
  BY <1>4, <1>5

\* pi appends an entry below its leaf: the file is well-formed again.
LEMMA FileAppended ==
  ASSUME NEW fl, NEW leaf, NEW next, NEW reserved, FileIs(fl, leaf, next, reserved),
         NEW x \in Ids, NEW next2 \in Nat, next <= next2, x < next2, x \notin FileIds(fl),
         NEW rest \in SUBSET reserved, x \notin rest
  PROVE  FileIs(Append(fl, [id |-> x, parent |-> leaf]), x, next2, rest)
<1> DEFINE row == [id |-> x, parent |-> leaf]
           fl2 == Append(fl, row)
<1>0. row \in Rows /\ row.id = x /\ row.parent = leaf /\ fl \in Seq(Rows)
  <2>0. \A i \in 1..Len(fl) : fl[i] \in Rows
    BY DEF FileIs
  <2>1. leaf \in Leaves
    BY <2>0 DEF FileIs, FileIds, Rows, Leaves
  <2> QED
    BY <2>1 DEF Rows, FileIs
<1>r. PICK r \in Rows : r = row /\ r.id = x /\ r.parent = leaf
  BY <1>0
<1>1. PICK g : g = fl2 /\ g = Append(fl, r)
  BY <1>r
<1> HIDE DEF row, fl2
<1>2. /\ g \in Seq(Rows) /\ Len(g) = Len(fl) + 1 /\ Len(fl) \in Nat
      /\ \A i \in 1..Len(fl) : g[i] = fl[i]
      /\ g[Len(fl) + 1] = r
      /\ \A y : y \in FileIds(g) <=> y \in FileIds(fl) \/ y = x
  <2>1. fl \in Seq(Rows) /\ g = Append(fl, r)
    BY <1>0, <1>1
  <2>2. /\ g \in Seq(Rows) /\ Len(g) = Len(fl) + 1 /\ Len(fl) \in Nat
        /\ \A i \in 1..Len(fl) : g[i] = fl[i]
        /\ g[Len(fl) + 1] = r
    BY <2>1
  <2>3. \A i : i \in 1..Len(g) <=> i \in 1..Len(fl) \/ i = Len(fl) + 1
    BY <2>2
  <2>4. \A y : y \in FileIds(g) <=> y \in FileIds(fl) \/ y = r.id
    BY <2>2, <2>3 DEF FileIds
  <2> QED
    BY <1>r, <2>2, <2>4
<1>3. \A i : i \in 1..Len(g) <=> i \in 1..Len(fl) \/ i = Len(fl) + 1
  BY <1>2
<1>4. \A i \in 1..Len(g) : /\ g[i].id < next2 /\ g[i].id \notin rest
                           /\ g[i].parent \in FileIds(g) \cup {None}
  <2> SUFFICES ASSUME NEW i \in 1..Len(g)
               PROVE  g[i].id < next2 /\ g[i].id \notin rest /\ g[i].parent \in FileIds(g) \cup {None}
    OBVIOUS
  <2>1. CASE i \in 1..Len(fl)
    <3>1. fl[i] \in Rows /\ g[i] = fl[i]
      BY <1>0, <1>2, <2>1
    <3>2. fl[i].id \in Nat
      BY <3>1, IdNumbers DEF Rows
    <3> QED
      BY <1>2, <2>1, <3>1, <3>2 DEF FileIs
  <2>2. CASE i = Len(fl) + 1
    BY <1>r, <1>2, <2>2 DEF FileIs
  <2> QED
    BY <1>3, <2>1, <2>2
<1>5. \A i, j \in 1..Len(g) : g[i].id = g[j].id => i = j
  <2>1. \A i \in 1..Len(fl) : fl[i].id \in FileIds(fl)
    BY DEF FileIds
  <2> QED
    BY <1>r, <1>2, <1>3, <2>1 DEF FileIs
<1>6. \A y \in rest : y < next2
  BY IdNumbers DEF FileIs
<1>7. next2 >= 1 /\ rest \in SUBSET Ids
  BY DEF FileIs
<1>8. FileIs(g, x, next2, rest)
  BY <1>2, <1>4, <1>5, <1>6, <1>7 DEF FileIs
<1> QED
  BY <1>1, <1>8 DEF row, fl2

\* A bounded set of numbers has a greatest one.
LEMMA Greatest ==
  ASSUME NEW S \in SUBSET Nat, NEW n \in Nat, \A x \in S : x <= n, S # {}
  PROVE  \E m \in S : \A y \in S : y <= m
<1> DEFINE T == {k \in Nat : \E x \in S : k = n - x}
           R == OpToRel(<, Nat)
<1>1. T \subseteq Nat
  OBVIOUS
<1>2. T # {}
  <2>1. PICK x \in S : TRUE
    OBVIOUS
  <2>2. n - x \in Nat
    BY <2>1
  <2>3. n - x \in T
    BY <2>1, <2>2
  <2> QED
    BY <2>3
<1>3. IsWellFoundedOn(R, Nat)
  BY NatLessThanWellFounded
<1>4. PICK k \in T : \A j \in T : ~(<<j, k>> \in R)
  <2> HIDE DEF T, R
  <2> QED
    BY <1>1, <1>2, <1>3, WFMin
<1>5. \A j \in T : ~(j < k)
  <2>1. \A a, b \in Nat : a < b => <<a, b>> \in R
    BY DEF OpToRel
  <2> HIDE DEF R
  <2> QED
    BY <1>1, <1>4, <2>1
<1>6. PICK m \in S : k = n - m
  OBVIOUS
<1>7. ASSUME NEW y \in S PROVE y <= m
  <2>1. n - y \in T /\ n \in Nat /\ y \in Nat /\ m \in Nat
    OBVIOUS
  <2>2. ~(n - y < n - m)
    <3> HIDE DEF T
    <3> QED
      BY <1>5, <1>6, <2>1
  <2> QED
    BY <2>1, <2>2
<1> QED
  BY <1>7

-----------------------------------------------------------------------------
(* The Document.                                                           *)

\* A Document that has read the first p entries of the file: it has sealed those
\* and no others, its live forms are what it has not sealed, and its leaf and all
\* parents are entries it has.
DocIs(fl, d, forms, p) ==
  /\ d \in Docs /\ Faithful(fl, d.entries) /\ p \in 0..Len(fl)
  /\ \A i \in 1..p : fl[i].id \in DOMAIN d.entries /\ d.entries[fl[i].id].sealed
  /\ \A x \in DOMAIN d.entries : d.entries[x].sealed => d.entries[x].ord < p
  /\ forms = {x \in DOMAIN d.entries : ~d.entries[x].sealed}
  /\ \A x \in DOMAIN d.entries : d.entries[x].parent \in DOMAIN d.entries \cup {None}
  /\ d.leaf \in DOMAIN d.entries \cup {None}

\* The leaf is a live form or the one pi selects.
LEMMA LeafIn ==
  ASSUME NEW E, NEW forms \in SUBSET Ids, NEW selected
  PROVE  EffectiveLeaf(E, forms, selected) \in forms \cup {selected}
<1> DEFINE attached == {x \in forms : Anchor(E, forms, x) \in PathOf(E, selected)}
<1>1. CASE attached = {}
  BY <1>1 DEF EffectiveLeaf
<1>2. CASE attached # {}
  <2>1. attached \in SUBSET Nat /\ MaxEntries \in Nat /\ \A x \in attached : x <= MaxEntries
    <3>1. MaxEntries \in Nat /\ \A x \in forms : x \in Nat /\ x <= MaxEntries
      BY Bounds DEF Ids
    <3>2. attached \subseteq forms
      OBVIOUS
    <3> HIDE DEF attached
    <3> QED
      BY <3>1, <3>2
  <2>2. \E m \in attached : \A y \in attached : y <= m
    <3> HIDE DEF attached
    <3> QED
      BY <1>2, <2>1, Greatest
  <2>3. (CHOOSE x \in attached : \A y \in attached : y <= x) \in attached
    <3> HIDE DEF attached
    <3> QED
      BY <2>2
  <2> QED
    BY <1>2, <2>3 DEF EffectiveLeaf
<1> QED
  BY <1>1, <1>2

\* What is read of the file from a position on.
LEMMA SuffixIs ==
  ASSUME NEW leaf, NEW next, NEW reserved, FileIs(file, leaf, next, reserved), NEW from \in 0..Len(file)
  PROVE  /\ Suffix(from) \in Maps
         /\ \A x : x \in DOMAIN Suffix(from) <=> \E i \in (from + 1)..Len(file) : file[i].id = x
         /\ \A i \in (from + 1)..Len(file) : Suffix(from)[file[i].id] = Stored(file, i - 1)
<1>1. PICK N \in Nat : N = Len(file) /\ from \in 0..N /\ \A i \in 1..N : file[i] \in Rows
  BY DEF FileIs
<1>2. \A x : x \in DOMAIN Suffix(from) <=> \E i \in (from + 1)..N : file[i].id = x
  BY <1>1 DEF Suffix
<1>3. ASSUME NEW i \in (from + 1)..N PROVE Suffix(from)[file[i].id] = Stored(file, i - 1)
  <2>1. i - 1 \in 0..(N - 1) /\ (i - 1) + 1 = i /\ i \in 1..N
    BY <1>1
  <2>2. \A o \in 0..(N - 1) : file[o + 1].id = file[i].id => o = i - 1
    <3>1. \A o \in 0..(N - 1) : o + 1 \in 1..N
      BY <1>1
    <3> QED
      BY <1>1, <2>1, <3>1 DEF FileIs
  <2>3. (CHOOSE o \in 0..(N - 1) : file[o + 1].id = file[i].id) = i - 1
    BY <2>1, <2>2
  <2>4. Suffix(from)[file[i].id] = Project(CHOOSE o \in 0..(N - 1) : file[o + 1].id = file[i].id)
    BY <1>1 DEF Suffix
  <2> QED
    BY <2>3, <2>4 DEF Project, Stored
<1>4. \A i \in 1..N : Stored(file, i - 1) \in Entry /\ file[i].id \in Ids
  <2> SUFFICES ASSUME NEW i \in 1..N PROVE Stored(file, i - 1) \in Entry /\ file[i].id \in Ids
    OBVIOUS
  <2>1. (i - 1) + 1 = i /\ i - 1 \in Nat
    BY <1>1
  <2>2. file[i].parent \in Leaves /\ file[i].id \in Ids
    BY <1>1 DEF Rows
  <2> QED
    BY <2>1, <2>2, IdNumbers DEF Stored, Entry
<1>5. Suffix(from) = [x \in DOMAIN Suffix(from) |-> Suffix(from)[x]]
  BY DEF Suffix
<1>6. Suffix(from) \in [DOMAIN Suffix(from) -> Entry] /\ DOMAIN Suffix(from) \in SUBSET Ids
  <2>1. PICK A : A = Suffix(from)
    OBVIOUS
  <2>2. \A x \in DOMAIN A : x \in Ids /\ A[x] \in Entry
    BY <1>1, <1>2, <1>3, <1>4, <2>1
  <2> QED
    BY <1>5, <2>1, <2>2
<1> QED
  BY <1>1, <1>2, <1>3, <1>6, MapForm

\* A refresh keeps what is sealed, seals what it reads and drops live forms only.
LEMMA RefreshIs ==
  ASSUME NEW leaf, NEW next, NEW reserved, FileIs(file, leaf, next, reserved),
         NEW d, NEW forms, DocIs(file, d, forms, position), NEW drop \in BOOLEAN,
         NEW selected \in FileIds(file) \cup {None}, Refresh(d, forms, drop, selected)
  PROVE  /\ DocIs(file, doc', live', position') /\ position' = Len(file)
         /\ \A x \in DOMAIN d.entries : d.entries[x].sealed =>
              x \in DOMAIN doc'.entries /\ doc'.entries[x] = d.entries[x]
<1>1. PICK A \in Maps : /\ A = Suffix(position)
                        /\ \A x : x \in DOMAIN A <=> \E i \in (position + 1)..Len(file) : file[i].id = x
                        /\ \A i \in (position + 1)..Len(file) : A[file[i].id] = Stored(file, i - 1)
  <2>1. position \in 0..Len(file)
    BY DEF DocIs
  <2> QED
    BY <2>1, SuffixIs
<1>2. PICK E \in Maps : E = d.entries
  BY DEF DocIs, Docs
<1>3. PICK dropped : dropped = IF drop THEN forms ELSE {}
  OBVIOUS
<1>4. PICK B : B = Put(Restrict2(E, DOMAIN E \ dropped), A)
  OBVIOUS
<1>5. PICK left : left = (forms \ dropped) \ DOMAIN A
  OBVIOUS
<1>6. PICK lf : lf = EffectiveLeaf(B, left, selected)
  OBVIOUS
<1>7. doc' = [entries |-> B, leaf |-> lf] /\ live' = left /\ position' = Len(file)
  BY <1>1, <1>2, <1>3, <1>4, <1>5, <1>6 DEF Refresh
<1>8. /\ \A x : x \in DOMAIN B <=> x \in DOMAIN A \/ (x \in DOMAIN E /\ x \notin dropped)
      /\ \A x \in DOMAIN A : B[x] = A[x]
      /\ \A x \in DOMAIN E : x \notin dropped /\ x \notin DOMAIN A => B[x] = E[x]
  BY <1>4 DEF Put, Restrict2
<1>9. B \in Maps
  <2>1. B = [x \in DOMAIN B |-> B[x]]
    BY <1>4 DEF Put
  <2>2. \A x \in DOMAIN B : x \in Ids /\ B[x] \in Entry
    BY <1>1, <1>2, <1>8, MapForm
  <2> QED
    BY <2>1, <2>2, MapForm
<1>10. PICK N \in Nat : N = Len(file) /\ position \in 0..N /\ \A i \in 1..N : file[i] \in Rows
  BY DEF FileIs, DocIs
<1>11. \A x \in forms : x \in DOMAIN E /\ ~E[x].sealed
  BY <1>2 DEF DocIs
<1>12. \A x \in DOMAIN E : ~E[x].sealed => x \in forms
  BY <1>2 DEF DocIs
<1>13. \A x \in DOMAIN A : A[x].sealed /\ A[x].ord < N
  <2> SUFFICES ASSUME NEW x \in DOMAIN A PROVE A[x].sealed /\ A[x].ord < N
    OBVIOUS
  <2>1. PICK i \in (position + 1)..N : A[x] = Stored(file, i - 1)
    BY <1>1, <1>10
  <2> QED
    BY <1>10, <2>1 DEF Stored
<1>14. ASSUME NEW x \in DOMAIN E, E[x].sealed PROVE x \notin DOMAIN A /\ x \in DOMAIN B /\ B[x] = E[x]
  <2>1. PICK o \in 0..(N - 1) : E[x] = Stored(file, o) /\ file[o + 1].id = x
    BY <1>2, <1>10, <1>14 DEF DocIs, Faithful
  <2>2. o < position
    <3>1. E[x].ord < position /\ E[x].ord = o
      BY <1>2, <1>14, <2>1 DEF DocIs, Stored
    <3> QED
      BY <3>1
  <2>3. x \notin DOMAIN A
    <3> SUFFICES ASSUME NEW i \in (position + 1)..N, file[i].id = x PROVE FALSE
      BY <1>1, <1>10
    <3>1. i \in 1..N /\ o + 1 \in 1..N /\ i # o + 1
      BY <1>10, <2>2
    <3> QED
      BY <1>10, <2>1, <3>1 DEF FileIs
  <2>4. x \notin dropped
    BY <1>3, <1>11, <1>14
  <2> QED
    BY <1>8, <2>3, <2>4
<1>15. Faithful(file, B)
  <2> SUFFICES ASSUME NEW x \in DOMAIN B, B[x].sealed
               PROVE  \E o \in 0..(Len(file) - 1) : B[x] = Stored(file, o) /\ file[o + 1].id = x
    BY DEF Faithful
  <2>1. CASE x \in DOMAIN A
    <3>1. PICK i \in (position + 1)..N : file[i].id = x /\ B[x] = Stored(file, i - 1)
      BY <1>1, <1>8, <1>10, <2>1
    <3>2. i - 1 \in 0..(N - 1) /\ (i - 1) + 1 = i
      BY <1>10
    <3> QED
      BY <1>10, <3>1, <3>2
  <2>2. CASE x \notin DOMAIN A
    <3>1. x \in DOMAIN E /\ B[x] = E[x]
      BY <1>8, <2>2
    <3> QED
      BY <1>2, <3>1 DEF DocIs, Faithful
  <2> QED
    BY <2>1, <2>2
<1>16. \A i \in 1..N : file[i].id \in DOMAIN B /\ B[file[i].id].sealed
  <2> SUFFICES ASSUME NEW i \in 1..N PROVE file[i].id \in DOMAIN B /\ B[file[i].id].sealed
    OBVIOUS
  <2>1. CASE i \in (position + 1)..N
    BY <1>1, <1>8, <1>10, <1>13, <2>1
  <2>2. CASE i \in 1..position
    <3>1. file[i].id \in DOMAIN E /\ E[file[i].id].sealed
      BY <1>2, <2>2 DEF DocIs
    <3> QED
      BY <1>14, <3>1
  <2> QED
    BY <1>10, <2>1, <2>2
<1>17. \A x \in DOMAIN B : B[x].sealed => B[x].ord < N
  <2> SUFFICES ASSUME NEW x \in DOMAIN B, B[x].sealed PROVE B[x].ord < N
    OBVIOUS
  <2>1. PICK o \in 0..(N - 1) : B[x] = Stored(file, o)
    BY <1>10, <1>15 DEF Faithful
  <2> QED
    BY <1>10, <2>1 DEF Stored
<1>18. left = {x \in DOMAIN B : ~B[x].sealed}
  <2>1. \A x \in left : x \in DOMAIN B /\ ~B[x].sealed
    BY <1>5, <1>8, <1>11
  <2>2. \A x \in DOMAIN B : ~B[x].sealed => x \in left
    BY <1>5, <1>8, <1>12, <1>13
  <2> QED
    BY <2>1, <2>2
<1>19. \A x \in FileIds(file) : x \in DOMAIN B
  BY <1>10, <1>16 DEF FileIds
<1>20. \A x \in DOMAIN B : B[x].parent \in DOMAIN B \cup {None}
  <2> SUFFICES ASSUME NEW x \in DOMAIN B PROVE B[x].parent \in DOMAIN B \cup {None}
    OBVIOUS
  <2>1. CASE B[x].sealed
    <3>1. PICK o \in 0..(N - 1) : B[x] = Stored(file, o)
      BY <1>10, <1>15, <2>1 DEF Faithful
    <3>2. B[x].parent = file[o + 1].parent /\ o + 1 \in 1..N
      BY <1>10, <3>1 DEF Stored
    <3> QED
      BY <1>10, <1>19, <3>2 DEF FileIs
  <2>2. CASE ~B[x].sealed
    <3>1. x \in forms /\ x \notin dropped /\ x \in DOMAIN E /\ B[x] = E[x]
      BY <1>5, <1>8, <1>11, <1>18, <2>2
    <3>2. dropped = {}
      BY <1>3, <3>1
    <3>3. E[x].parent \in DOMAIN E \cup {None}
      BY <1>2, <3>1 DEF DocIs
    <3> QED
      BY <1>8, <3>1, <3>2, <3>3
  <2> QED
    BY <2>1, <2>2
<1>21. lf \in DOMAIN B \cup {None}
  <2>1. left \in SUBSET Ids
    BY <1>5, <1>2, <1>11, MapForm
  <2>2. lf \in left \cup {selected}
    BY <1>6, <2>1, LeafIn
  <2> QED
    BY <1>18, <1>19, <2>2
<1>22. doc' \in Docs /\ doc'.entries = B /\ doc'.leaf = lf
  <2>1. lf \in Leaves
    BY <1>9, <1>21, MapForm DEF Leaves
  <2> QED
    BY <1>7, <1>9, <2>1 DEF Docs
<1>23. DocIs(file, doc', live', position')
  BY <1>7, <1>10, <1>15, <1>16, <1>17, <1>18, <1>20, <1>21, <1>22 DEF DocIs
<1> QED
  BY <1>2, <1>7, <1>14, <1>22, <1>23

\* The file and the Document as they are, and what is gone while the Worker is down.
FileInv  == FileIs(file, piLeaf, nextId, open)
DocInv   == DocIs(file, doc, live, position)
DownInv  == ~up => /\ doc = Empty /\ open = {} /\ live = {} /\ position = 0
                   /\ \A t \in Tabs : tab[t].conn = "off"
CoreInv  == FileInv /\ DocInv

\* Sealed entries of one Document are in the other.
Keeps(d, d2) == \A x \in DOMAIN d.entries : d.entries[x].sealed =>
                  x \in DOMAIN d2.entries /\ d2.entries[x] = d.entries[x]

\* A Document that has not looked at the file again still agrees with it.
LEMMA DocGrows ==
  ASSUME NEW fl \in Seq(Rows), NEW row \in Rows, NEW fl2, fl2 = Append(fl, row),
         NEW d, NEW forms, NEW p, DocIs(fl, d, forms, p)
  PROVE  DocIs(fl2, d, forms, p)
<1>1. /\ Len(fl2) = Len(fl) + 1 /\ Len(fl) \in Nat
      /\ \A i \in 1..Len(fl) : fl2[i] = fl[i]
  BY FileGrows
<1>2. Faithful(fl2, d.entries)
  BY FaithfulGrows DEF DocIs
<1>3. p \in 0..Len(fl) /\ p \in 0..Len(fl2) /\ \A i \in 1..p : fl2[i] = fl[i]
  BY <1>1 DEF DocIs
<1> QED
  BY <1>2, <1>3 DEF DocIs

\* An empty Document has read nothing.
LEMMA EmptyIs == ASSUME NEW fl \in Seq(Rows) PROVE DocIs(fl, Empty, {}, 0)
<1>1. NoEntries \in Maps /\ DOMAIN NoEntries = {}
  BY MapForm DEF NoEntries
<1>2. Empty \in Docs /\ Empty.entries = NoEntries /\ Empty.leaf = None
  BY <1>1, IdNumbers DEF Empty, Docs
<1>3. Len(fl) \in Nat
  OBVIOUS
<1> QED
  BY <1>1, <1>2, <1>3 DEF DocIs, Faithful

\* A Document with the file's entries has read the file.
LEMMA RestoredIs ==
  ASSUME CoreInv, NEW leaf, leaf \in FileIds(file) \cup {None}
  PROVE  DocIs(file, [entries |-> Suffix(0), leaf |-> leaf], {}, Len(file))
<1>1. PICK N \in Nat : N = Len(file) /\ \A i \in 1..N : file[i] \in Rows
  BY DEF CoreInv, FileInv, FileIs
<1>2. PICK A \in Maps : /\ A = Suffix(0)
                        /\ \A x : x \in DOMAIN A <=> \E i \in 1..N : file[i].id = x
                        /\ \A i \in 1..N : A[file[i].id] = Stored(file, i - 1)
  <2>1. 0 \in 0..Len(file) /\ 0 + 1 = 1
    BY <1>1
  <2> QED
    BY <1>1, <2>1, SuffixIs DEF CoreInv, FileInv
<1>3. PICK d : d = [entries |-> Suffix(0), leaf |-> leaf]
  OBVIOUS
<1>4. \A x \in FileIds(file) : x \in DOMAIN A
  BY <1>1, <1>2 DEF FileIds
<1>5. d \in Docs /\ d.entries = A /\ d.leaf = leaf
  BY <1>2, <1>3, <1>4, MapForm DEF Docs, Leaves
<1>6. \A x \in DOMAIN A : \E o \in 0..(N - 1) : A[x] = Stored(file, o) /\ file[o + 1].id = x
  <2> SUFFICES ASSUME NEW x \in DOMAIN A PROVE \E o \in 0..(N - 1) : A[x] = Stored(file, o) /\ file[o + 1].id = x
    OBVIOUS
  <2>1. PICK i \in 1..N : file[i].id = x /\ A[x] = Stored(file, i - 1)
    BY <1>2
  <2>2. i - 1 \in 0..(N - 1) /\ (i - 1) + 1 = i
    BY <1>1
  <2> QED
    BY <2>1, <2>2
<1>7. \A x \in DOMAIN A : A[x].sealed /\ A[x].ord < N /\ A[x].parent \in DOMAIN A \cup {None}
  <2> SUFFICES ASSUME NEW x \in DOMAIN A
               PROVE  A[x].sealed /\ A[x].ord < N /\ A[x].parent \in DOMAIN A \cup {None}
    OBVIOUS
  <2>1. PICK o \in 0..(N - 1) : A[x] = Stored(file, o)
    BY <1>6
  <2>2. A[x].parent = file[o + 1].parent /\ o + 1 \in 1..N
    BY <1>1, <2>1 DEF Stored
  <2>3. A[x].sealed /\ A[x].ord < N
    BY <1>1, <2>1 DEF Stored
  <2> QED
    BY <1>1, <1>4, <2>2, <2>3 DEF CoreInv, FileInv, FileIs
<1>8. \A i \in 1..N : file[i].id \in DOMAIN A /\ A[file[i].id].sealed
  BY <1>2, <1>7
<1>9. DocIs(file, d, {}, N)
  BY <1>1, <1>4, <1>5, <1>6, <1>7, <1>8 DEF DocIs, Faithful
<1> QED
  BY <1>1, <1>3, <1>9

\* Opening a live form, and writing one.
LEMMA StartedIs ==
  ASSUME CoreInv, nextId \in Ids
  PROVE  /\ DocIs(file, [doc EXCEPT !.entries = Put(@, [x \in {nextId} |-> LiveForm(doc.leaf)])],
                  live \cup {nextId}, position)
         /\ Keeps(doc, [doc EXCEPT !.entries = Put(@, [x \in {nextId} |-> LiveForm(doc.leaf)])])
<1>1. PICK E \in Maps : E = doc.entries /\ doc \in Docs
  BY DEF CoreInv, DocInv, DocIs, Docs
<1>2. PICK B : B = Put(E, [x \in {nextId} |-> LiveForm(doc.leaf)])
  OBVIOUS
<1>3. PICK d : d = [doc EXCEPT !.entries = Put(@, [x \in {nextId} |-> LiveForm(doc.leaf)])]
  OBVIOUS
<1>4. /\ \A x : x \in DOMAIN B <=> x \in DOMAIN E \/ x = nextId
      /\ B[nextId] = LiveForm(doc.leaf)
      /\ \A x \in DOMAIN E : x # nextId => B[x] = E[x]
      /\ B = [x \in DOMAIN B |-> B[x]]
  BY <1>2 DEF Put
<1>5. /\ LiveForm(doc.leaf) \in Entry /\ ~LiveForm(doc.leaf).sealed
      /\ LiveForm(doc.leaf).parent = doc.leaf
  BY <1>1, IdNumbers DEF LiveForm, Entry, Docs
<1>6. B \in Maps
  <2>1. \A x \in DOMAIN B : x \in Ids /\ B[x] \in Entry
    BY <1>1, <1>4, <1>5, MapForm
  <2> QED
    BY <1>4, <2>1, MapForm
<1>7. d \in Docs /\ d.entries = B /\ d.leaf = doc.leaf
  BY <1>1, <1>2, <1>3, <1>6 DEF Docs
<1>8. \A x \in DOMAIN E : E[x].sealed => x # nextId
  <2> SUFFICES ASSUME nextId \in DOMAIN E, E[nextId].sealed PROVE FALSE
    OBVIOUS
  <2>1. PICK o \in 0..(Len(file) - 1) : file[o + 1].id = nextId
    BY <1>1 DEF CoreInv, DocInv, DocIs, Faithful
  <2>2. o + 1 \in 1..Len(file)
    BY DEF CoreInv, FileInv, FileIs
  <2>3. file[o + 1].id < nextId
    BY <2>2 DEF CoreInv, FileInv, FileIs
  <2>4. nextId \in Nat
    BY IdNumbers
  <2> QED
    BY <2>1, <2>3, <2>4
<1>9. \A x \in DOMAIN B : B[x].sealed => x \in DOMAIN E /\ B[x] = E[x]
  BY <1>4, <1>5
<1>10. \A x \in DOMAIN E : E[x].sealed => x \in DOMAIN B /\ B[x] = E[x]
  BY <1>4, <1>8
<1>11. Faithful(file, B)
  BY <1>1, <1>9 DEF CoreInv, DocInv, DocIs, Faithful
<1>12. live \cup {nextId} = {x \in DOMAIN B : ~B[x].sealed}
  BY <1>1, <1>4, <1>5, <1>9 DEF CoreInv, DocInv, DocIs
<1>13. \A x \in DOMAIN B : B[x].parent \in DOMAIN B \cup {None}
  BY <1>1, <1>4, <1>5 DEF CoreInv, DocInv, DocIs
<1>14. doc.leaf \in DOMAIN B \cup {None}
  BY <1>1, <1>4 DEF CoreInv, DocInv, DocIs
<1>15. /\ position \in 0..Len(file)
       /\ \A i \in 1..position : file[i].id \in DOMAIN B /\ B[file[i].id].sealed
       /\ \A x \in DOMAIN B : B[x].sealed => B[x].ord < position
  BY <1>1, <1>9, <1>10 DEF CoreInv, DocInv, DocIs
<1>16. DocIs(file, d, live \cup {nextId}, position)
  BY <1>7, <1>11, <1>12, <1>13, <1>14, <1>15 DEF DocIs
<1>17. Keeps(doc, d)
  BY <1>1, <1>7, <1>10 DEF Keeps
<1> QED
  BY <1>3, <1>16, <1>17

\* A token for a live form changes nothing that is sealed.
LEMMA UpdatedIs ==
  ASSUME CoreInv, NEW x \in DOMAIN doc.entries, ~doc.entries[x].sealed
  PROVE  /\ DocIs(file, [doc EXCEPT !.entries[x].body = @ + 1], live, position)
         /\ Keeps(doc, [doc EXCEPT !.entries[x].body = @ + 1])
<1>1. PICK E \in Maps : E = doc.entries /\ doc \in Docs
  BY DEF CoreInv, DocInv, DocIs, Docs
<1>2. PICK B : B = [E EXCEPT ![x].body = @ + 1]
  OBVIOUS
<1>3. PICK d : d = [doc EXCEPT !.entries[x].body = @ + 1]
  OBVIOUS
<1>4. /\ DOMAIN B = DOMAIN E /\ \A y \in DOMAIN E : y # x => B[y] = E[y]
      /\ B[x] = [E[x] EXCEPT !.body = @ + 1] /\ B = [y \in DOMAIN B |-> B[y]]
  BY <1>1, <1>2, MapForm
<1>5. B[x] \in Entry /\ ~B[x].sealed /\ B[x].parent = E[x].parent
  <2>1. E[x] \in Entry
    BY <1>1, MapForm
  <2> QED
    BY <1>1, <1>4, <2>1 DEF Entry
<1>6. B \in Maps
  <2>1. \A y \in DOMAIN B : y \in Ids /\ B[y] \in Entry
    BY <1>1, <1>4, <1>5, MapForm
  <2> QED
    BY <1>4, <2>1, MapForm
<1>7. d \in Docs /\ d.entries = B /\ d.leaf = doc.leaf
  BY <1>1, <1>2, <1>3, <1>6 DEF Docs
<1>8. \A y \in DOMAIN E : (E[y].sealed <=> B[y].sealed) /\ (E[y].sealed => B[y] = E[y]) /\ B[y].parent = E[y].parent
  BY <1>1, <1>4, <1>5
<1>9. DocIs(file, d, live, position)
  BY <1>1, <1>4, <1>7, <1>8 DEF CoreInv, DocInv, DocIs, Faithful
<1>10. Keeps(doc, d)
  BY <1>1, <1>4, <1>7, <1>8 DEF Keeps
<1> QED
  BY <1>3, <1>9, <1>10

\* The handlers that refresh the Document.
Refreshing == \/ MessageStart \/ OtherEvent \/ AgentSettled
              \/ \E x \in Ids : MessageUpdate(x) \/ MessageEnd(x)
              \/ \E x \in Leaves : Navigate(x)
              \/ \E t \in Tabs : Attach(t)

\* What the other proofs use of the file.
LEMMA FileFacts ==
  ASSUME CoreInv
  PROVE  /\ FileIs(file, piLeaf, nextId, open) /\ DocIs(file, doc, live, position)
         /\ file \in Seq(Rows) /\ Len(file) \in Nat /\ nextId \in Nat /\ nextId >= 1
         /\ piLeaf \in FileIds(file) \cup {None} /\ piLeaf \in Leaves
         /\ \A x \in FileIds(file) : x \in Ids /\ x < nextId /\ x \notin open
<1>1. FileIs(file, piLeaf, nextId, open) /\ DocIs(file, doc, live, position)
  BY DEF CoreInv, FileInv, DocInv
<1>2. file \in Seq(Rows) /\ Len(file) \in Nat /\ nextId \in Nat /\ nextId >= 1 /\ piLeaf \in FileIds(file) \cup {None}
  BY <1>1 DEF FileIs
<1>3. \A i \in 1..Len(file) : file[i].id \in Ids
  <2>1. \A i \in 1..Len(file) : file[i] \in Rows
    BY <1>2
  <2> QED
    BY <2>1 DEF Rows
<1>4. \A x \in FileIds(file) : x \in Ids /\ x < nextId /\ x \notin open
  BY <1>1, <1>3 DEF FileIs, FileIds
<1> QED
  BY <1>1, <1>2, <1>4 DEF Leaves

\* They keep what is sealed, and leave a Document that has read the file.
LEMMA RefreshingStep ==
  ASSUME CoreInv, Refreshing
  PROVE  DocIs(file, doc', live', position') /\ position' = Len(file) /\ Keeps(doc, doc')
<1> USE FileFacts
<1>1. ASSUME NEW drop \in BOOLEAN, NEW s \in FileIds(file) \cup {None}, Refresh(doc, live, drop, s)
      PROVE  DocIs(file, doc', live', position') /\ position' = Len(file) /\ Keeps(doc, doc')
  BY <1>1, RefreshIs DEF Keeps
<1>2. CASE MessageStart
  <2>1. PICK d : d = [doc EXCEPT !.entries = Put(@, [x \in {nextId} |-> LiveForm(doc.leaf)])]
    OBVIOUS
  <2>2. nextId \in Ids
    BY <1>2, Bounds DEF MessageStart, Reserve, Ids
  <2>3. DocIs(file, d, live \cup {nextId}, position) /\ Keeps(doc, d)
    BY <2>1, <2>2, StartedIs
  <2>4. Refresh(d, live \cup {nextId}, FALSE, piLeaf)
    BY <1>2, <2>1 DEF MessageStart
  <2>5. DocIs(file, doc', live', position') /\ position' = Len(file) /\ Keeps(d, doc')
    BY <2>3, <2>4, RefreshIs DEF Keeps
  <2> QED
    BY <2>3, <2>5 DEF Keeps
<1>3. ASSUME NEW x \in Ids, MessageUpdate(x)
      PROVE  DocIs(file, doc', live', position') /\ position' = Len(file) /\ Keeps(doc, doc')
  <2>1. PICK d : d = [doc EXCEPT !.entries[x].body = @ + 1]
    OBVIOUS
  <2>2. x \in DOMAIN doc.entries /\ ~doc.entries[x].sealed
    BY <1>3 DEF MessageUpdate
  <2>3. DocIs(file, d, live, position) /\ Keeps(doc, d)
    BY <2>1, <2>2, UpdatedIs
  <2>4. Refresh(d, live, FALSE, piLeaf)
    BY <1>3, <2>1 DEF MessageUpdate
  <2>5. DocIs(file, doc', live', position') /\ position' = Len(file) /\ Keeps(d, doc')
    BY <2>3, <2>4, RefreshIs DEF Keeps
  <2> QED
    BY <2>3, <2>5 DEF Keeps
<1>4. CASE OtherEvent \/ AgentSettled \/ \E x \in Ids : MessageEnd(x)
  <2>1. Refresh(doc, live, FALSE, piLeaf) \/ Refresh(doc, live, TRUE, piLeaf)
    BY <1>4 DEF OtherEvent, AgentSettled, MessageEnd
  <2> QED
    BY <1>1, <2>1
<1>5. CASE \E x \in Leaves : Navigate(x)
  <2>1. PICK x : x \in FileIds(file) \cup {None} /\ Refresh(doc, live, TRUE, x)
    BY <1>5 DEF Navigate, FileIds
  <2> QED
    BY <1>1, <2>1
<1>6. CASE \E t \in Tabs : Attach(t)
  <2>1. Refresh(doc, live, FALSE, piLeaf)
    BY <1>6 DEF Attach
  <2> QED
    BY <1>1, <2>1
<1> QED
  BY <1>2, <1>3, <1>4, <1>5, <1>6 DEF Refreshing

\* The steps of a tab that leave the Document alone.
TabStep(t) == Prepare(t) \/ Receive(t) \/ WriteLands(t) \/ WriteFails(t) \/ Lose(t) \/ Reload(t)

\* The steps, grouped by what they do to the Document.
LEMMA NextSteps ==
  [Next]_vars => \/ Refreshing \/ SilentAppend \/ Crash \/ Restart
                 \/ \E t \in Tabs : TabStep(t)
                 \/ UNCHANGED vars
  BY DEF Next, Refreshing, TabStep, Leaves

\* pi stores an entry, or nothing.
LEMMA FileStep ==
  ASSUME CoreInv, [Next]_vars
  PROVE  /\ FileInv'
         /\ file' = file \/ \E row \in Rows : file' = Append(file, row)
<1> USE FileFacts
<1>1. CASE UNCHANGED <<file, piLeaf, nextId, open>>
  BY <1>1 DEF FileInv
<1>2. CASE MessageStart
  <2>1. /\ UNCHANGED <<file, piLeaf>> /\ nextId' = nextId + 1 /\ open' = open \cup {nextId}
        /\ nextId \in Ids
    BY <1>2, Bounds DEF MessageStart, Reserve, Ids
  <2>2. \A i \in 1..Len(file) : file[i].id \in Nat
    <3>1. \A i \in 1..Len(file) : file[i] \in Rows
      OBVIOUS
    <3> QED
      BY <3>1, IdNumbers DEF Rows
  <2>3. \A x \in open : x \in Nat /\ x < nextId
    BY IdNumbers DEF FileIs
  <2>4. FileIs(file, piLeaf, nextId + 1, open \cup {nextId})
    BY <2>1, <2>2, <2>3 DEF FileIs
  <2> QED
    BY <2>1, <2>4 DEF FileInv
<1>3. ASSUME NEW x \in Ids, MessageEnd(x) \/ (SilentAppend /\ x = nextId)
      PROVE  FileInv' /\ \E row \in Rows : file' = Append(file, row)
  <2>1. /\ file' = Append(file, [id |-> x, parent |-> piLeaf]) /\ piLeaf' = x
        /\ open' \in SUBSET open /\ x \notin open'
        /\ nextId' \in Nat /\ nextId <= nextId' /\ x < nextId'
    <3>1. CASE MessageEnd(x)
      BY <3>1 DEF MessageEnd, FileIs
    <3>2. CASE SilentAppend /\ x = nextId
      BY <3>2, IdNumbers DEF SilentAppend, Reserve, FileIs
    <3> QED
      BY <1>3, <3>1, <3>2
  <2>2. x \notin FileIds(file)
    <3> SUFFICES ASSUME x \in FileIds(file) PROVE FALSE
      OBVIOUS
    <3>1. x < nextId /\ x \notin open /\ x \in Nat
      BY IdNumbers
    <3>2. x \in open \/ x = nextId
      BY <1>3 DEF MessageEnd
    <3> QED
      BY <3>1, <3>2
  <2>3. FileIs(Append(file, [id |-> x, parent |-> piLeaf]), x, nextId', open')
    BY <2>1, <2>2, FileAppended
  <2>4. [id |-> x, parent |-> piLeaf] \in Rows
    BY DEF Rows
  <2> QED
    BY <2>1, <2>3, <2>4 DEF FileInv
<1>4. CASE SilentAppend
  <2>1. nextId \in Ids
    BY <1>4, Bounds DEF SilentAppend, Reserve, Ids
  <2> QED
    BY <1>3, <1>4, <2>1
<1>5. CASE UNCHANGED <<file, nextId>> /\ open' \in SUBSET open /\ piLeaf' \in FileIds(file) \cup {None}
  BY <1>5 DEF FileInv, FileIs
<1>6. CASE AgentSettled \/ Crash \/ Restart \/ \E x \in Leaves : Navigate(x)
  <2>1. file # <<>> => file[Len(file)].id \in FileIds(file)
    <3>1. file # <<>> => Len(file) \in 1..Len(file)
      OBVIOUS
    <3> QED
      BY <3>1 DEF FileIds
  <2>2. UNCHANGED <<file, nextId>> /\ open' \in SUBSET open
    BY <1>6 DEF AgentSettled, Crash, Restart, Navigate
  <2>3. piLeaf' \in FileIds(file) \cup {None}
    BY <1>6, <2>1 DEF AgentSettled, Crash, Restart, Navigate, FileIds
  <2> QED
    BY <1>5, <2>2, <2>3
<1>7. CASE OtherEvent \/ (\E x \in Ids : MessageUpdate(x)) \/ (\E t \in Tabs : Attach(t) \/ TabStep(t)) \/ UNCHANGED vars
  <2>1. UNCHANGED piVars
    BY <1>7 DEF OtherEvent, MessageUpdate, Attach, TabStep, Prepare, Receive, WriteLands, WriteFails, Lose, Reload, vars
  <2> QED
    BY <1>1, <2>1 DEF piVars
<1> QED
  <2>1. (\E x \in Ids : MessageEnd(x)) => FileInv' /\ \E row \in Rows : file' = Append(file, row)
    BY <1>3
  <2>2. AgentSettled \/ Crash \/ Restart \/ (\E x \in Leaves : Navigate(x)) \/ MessageStart => file' = file
    BY DEF AgentSettled, Crash, Restart, Navigate, MessageStart
  <2>3. OtherEvent \/ (\E x \in Ids : MessageUpdate(x)) \/ (\E t \in Tabs : Attach(t) \/ TabStep(t)) \/ UNCHANGED vars
          => file' = file
    BY DEF OtherEvent, MessageUpdate, Attach, TabStep, Prepare, Receive, WriteLands, WriteFails, Lose, Reload,
       vars, piVars
  <2>4. SilentAppend => \E row \in Rows : file' = Append(file, row)
    <3> SUFFICES ASSUME SilentAppend PROVE \E row \in Rows : file' = Append(file, row)
      OBVIOUS
    <3>1. nextId \in Ids
      BY Bounds DEF SilentAppend, Reserve, Ids
    <3> QED
      BY <1>3, <3>1
  <2> QED
    BY <1>2, <1>4, <1>6, <1>7, <2>1, <2>2, <2>3, <2>4, NextSteps DEF Refreshing

\* The Document never loses or changes what is sealed while the Worker lives.
LEMMA DocStep ==
  ASSUME CoreInv, DownInv, [Next]_vars
  PROVE  DocInv' /\ (up' => Keeps(doc, doc'))
<1> USE FileFacts
<1>1. ASSUME NEW d, NEW l, NEW p, DocIs(file, d, l, p) PROVE DocIs(file', d, l, p)
  BY <1>1, FileStep, DocGrows
<1>2. CASE Refreshing
  <2>1. PICK d, l, p : d = doc' /\ l = live' /\ p = position'
    OBVIOUS
  <2>2. DocIs(file, d, l, p) /\ Keeps(doc, doc')
    BY <1>2, <2>1, RefreshingStep
  <2>3. DocIs(file', d, l, p)
    BY <1>1, <2>2
  <2> QED
    BY <2>1, <2>2, <2>3 DEF DocInv
<1>3. CASE UNCHANGED docVars
  <2>1. DocIs(file', doc, live, position)
    BY <1>1
  <2> QED
    BY <1>3, <2>1 DEF DocInv, docVars, Keeps
<1>4. CASE Crash
  <2>1. DocIs(file, Empty, {}, 0)
    BY EmptyIs
  <2> QED
    BY <1>4, <2>1 DEF Crash, DocInv
<1>5. CASE Restart
  <2>1. piLeaf' \in FileIds(file) \cup {None}
    <3>1. file # <<>> => Len(file) \in 1..Len(file)
      OBVIOUS
    <3> QED
      BY <1>5, <3>1 DEF FileIds, Restart
  <2>2. DocIs(file, [entries |-> Suffix(0), leaf |-> piLeaf'], {}, Len(file))
    BY <2>1, RestoredIs
  <2>3. live' = {} /\ doc = Empty /\ file' = file
    BY <1>5 DEF Restart, DownInv
  <2>4. DOMAIN doc.entries = {}
    BY <2>3 DEF Empty, NoEntries
  <2> QED
    BY <1>5, <2>2, <2>3, <2>4 DEF Restart, DocInv, Keeps
<1>6. (SilentAppend \/ (\E t \in Tabs : TabStep(t)) \/ UNCHANGED vars) => UNCHANGED docVars
  BY DEF SilentAppend, TabStep, Prepare, Receive, WriteLands, WriteFails, Lose, Reload, vars
<1> QED
  BY <1>2, <1>3, <1>4, <1>5, <1>6, NextSteps

-----------------------------------------------------------------------------
(* Copies: frames, mirrors, cache records.                                 *)

\* A part of a faithful map is faithful.
LEMMA RestrictIs ==
  ASSUME NEW E \in Maps, NEW S, S \subseteq DOMAIN E
  PROVE  /\ Restrict2(E, S) \in Maps /\ DOMAIN Restrict2(E, S) = S
         /\ \A x \in S : Restrict2(E, S)[x] = E[x]
         /\ \A fl : Faithful(fl, E) => Faithful(fl, Restrict2(E, S))
<1>1. PICK B : B = Restrict2(E, S)
  OBVIOUS
<1>2. B = [x \in S |-> B[x]] /\ DOMAIN B = S /\ \A x \in S : B[x] = E[x]
  BY <1>1 DEF Restrict2
<1>3. B \in Maps
  BY <1>2, MapForm
<1>4. \A fl : Faithful(fl, E) => Faithful(fl, B)
  BY <1>2 DEF Faithful
<1> QED
  BY <1>1, <1>2, <1>3, <1>4

\* One faithful map put over another is faithful.
LEMMA PutIs ==
  ASSUME NEW E \in Maps, NEW A \in Maps
  PROVE  /\ Put(E, A) \in Maps
         /\ \A fl : Faithful(fl, E) /\ Faithful(fl, A) => Faithful(fl, Put(E, A))
<1>1. PICK B : B = Put(E, A)
  OBVIOUS
<1>2. /\ B = [x \in DOMAIN B |-> B[x]] /\ \A x : x \in DOMAIN B <=> x \in DOMAIN E \/ x \in DOMAIN A
      /\ \A x \in DOMAIN B : IF x \in DOMAIN A THEN B[x] = A[x] ELSE B[x] = E[x]
  BY <1>1 DEF Put
<1>3. B \in Maps
  <2>1. \A x \in DOMAIN B : x \in Ids /\ B[x] \in Entry
    BY <1>2, MapForm
  <2> QED
    BY <1>2, <2>1, MapForm
<1>4. \A fl : Faithful(fl, E) /\ Faithful(fl, A) => Faithful(fl, B)
  BY <1>2 DEF Faithful
<1> QED
  BY <1>1, <1>3, <1>4

\* A frame applied to a mirror gives a Document, faithful if both are.
LEMMA ApplyIs ==
  ASSUME NEW m \in Docs, NEW f \in Frames
  PROVE  /\ Apply(m, f) \in Docs
         /\ \A fl : Faithful(fl, m.entries) /\ Faithful(fl, f.put) => Faithful(fl, Apply(m, f).entries)
<1>1. PICK E, A : E = m.entries /\ A = f.put /\ E \in Maps /\ A \in Maps /\ f.leaf \in Leaves
  BY DEF Docs, Frames
<1>2. CASE f.kind = "replace"
  <2>1. Apply(m, f) = [entries |-> A, leaf |-> f.leaf]
    BY <1>1, <1>2 DEF Apply
  <2> QED
    BY <1>1, <2>1 DEF Docs
<1>3. CASE f.kind # "replace"
  <2>1. PICK S : S = DOMAIN E \ f.del /\ S \subseteq DOMAIN E
    OBVIOUS
  <2>2. PICK B : B = Restrict2(E, S) /\ B \in Maps /\ \A fl : Faithful(fl, E) => Faithful(fl, B)
    BY <1>1, <2>1, RestrictIs
  <2>3. Put(B, A) \in Maps /\ \A fl : Faithful(fl, B) /\ Faithful(fl, A) => Faithful(fl, Put(B, A))
    BY <1>1, <2>2, PutIs
  <2>4. Apply(m, f) = [entries |-> Put(B, A), leaf |-> f.leaf]
    BY <1>1, <1>3, <2>1, <2>2 DEF Apply
  <2> QED
    BY <1>1, <2>2, <2>3, <2>4 DEF Docs
<1> QED
  BY <1>2, <1>3

\* A patch carries entries of the newer Document.
LEMMA PatchIs ==
  ASSUME NEW d \in Docs, NEW d2 \in Docs
  PROVE  /\ Patch(d, d2) \in Frames
         /\ \A fl : Faithful(fl, d2.entries) => Faithful(fl, Patch(d, d2).put)
<1>1. PICK E, A : E = d.entries /\ A = d2.entries /\ E \in Maps /\ A \in Maps /\ d2.leaf \in Leaves
  BY DEF Docs
<1>2. PICK S : S = {x \in DOMAIN A : x \in DOMAIN E => E[x] # A[x]}
  OBVIOUS
<1>3. PICK B : B = Restrict2(A, S) /\ B \in Maps /\ \A fl : Faithful(fl, A) => Faithful(fl, B)
  BY <1>1, <1>2, RestrictIs
<1>4. Patch(d, d2) = [kind |-> "patch", put |-> B, del |-> DOMAIN E \ DOMAIN A, leaf |-> d2.leaf]
  BY <1>1, <1>2, <1>3 DEF Patch
<1>5. DOMAIN E \in SUBSET Ids
  BY <1>1, MapForm
<1> QED
  BY <1>1, <1>3, <1>4, <1>5 DEF Frames

\* So does the initial sync.
LEMMA SyncIs ==
  ASSUME NEW d \in Docs, NEW cursor \in Nat
  PROVE  /\ InitialSync(d, cursor) \in Frames
         /\ \A fl : Faithful(fl, d.entries) => Faithful(fl, InitialSync(d, cursor).put)
<1>1. PICK A : A = d.entries /\ A \in Maps /\ d.leaf \in Leaves
  BY DEF Docs
<1>2. PICK S : S = {x \in DOMAIN A : A[x].sealed => A[x].ord >= cursor}
  OBVIOUS
<1>3. PICK B : B = Restrict2(A, S) /\ B \in Maps /\ \A fl : Faithful(fl, A) => Faithful(fl, B)
  BY <1>1, <1>2, RestrictIs
<1>4. InitialSync(d, cursor) = IF Valid(cursor)
        THEN [kind |-> "delta", put |-> B, del |-> {}, leaf |-> d.leaf]
        ELSE [kind |-> "replace", put |-> A, del |-> {}, leaf |-> d.leaf]
  BY <1>1, <1>2, <1>3 DEF InitialSync
<1> QED
  BY <1>1, <1>3, <1>4 DEF Frames

\* The records of a faithful copy are the file's.
LEMMA RecordsIs ==
  ASSUME NEW fl \in Seq(Rows), NEW E \in Maps, Faithful(fl, E)
  PROVE  Records(E) \in Tables /\ Copied(fl, Records(E))
<1>1. PICK R : R = Records(E)
  OBVIOUS
<1>2. R = [o \in DOMAIN R |-> R[o]]
  BY <1>1 DEF Records
<1>3. \A o : o \in DOMAIN R <=> \E x \in DOMAIN E : E[x].sealed /\ E[x].ord = o
  BY <1>1 DEF Records
<1>4. ASSUME NEW o \in DOMAIN R PROVE o \in 0..(Len(fl) - 1) /\ R[o] = fl[o + 1]
  <2>1. PICK x \in DOMAIN E : x = CHOOSE y \in DOMAIN E : E[y].sealed /\ E[y].ord = o
    BY <1>3
  <2>2. E[x].sealed /\ E[x].ord = o
    BY <1>3, <2>1
  <2>3. R[o] = [id |-> x, parent |-> E[x].parent]
    BY <1>1, <2>1 DEF Records
  <2>4. PICK p \in 0..(Len(fl) - 1) : E[x] = Stored(fl, p) /\ fl[p + 1].id = x
    BY <2>2 DEF Faithful
  <2>5. p = o /\ E[x].parent = fl[p + 1].parent
    BY <2>2, <2>4 DEF Stored
  <2>6. fl[p + 1] \in Rows
    <3>1. p + 1 \in 1..Len(fl)
      OBVIOUS
    <3> QED
      BY <3>1
  <2>7. fl[p + 1] = [id |-> fl[p + 1].id, parent |-> fl[p + 1].parent]
    BY <2>6 DEF Rows
  <2> QED
    BY <2>3, <2>4, <2>5, <2>7
<1>5. \A o \in DOMAIN R : o \in Nat /\ R[o] \in Rows
  <2> SUFFICES ASSUME NEW o \in DOMAIN R PROVE o \in Nat /\ R[o] \in Rows
    OBVIOUS
  <2>1. o \in 0..(Len(fl) - 1) /\ R[o] = fl[o + 1]
    BY <1>4
  <2>2. o + 1 \in 1..Len(fl)
    BY <2>1
  <2> QED
    BY <2>1, <2>2
<1>6. R \in Tables
  BY <1>2, <1>5, TableForm
<1> QED
  BY <1>1, <1>4, <1>6 DEF Copied

\* The records planned for the cache are the file's.
LEMMA PlannedIs ==
  ASSUME NEW fl \in Seq(Rows), NEW b \in Docs, NEW m \in Docs, Faithful(fl, m.entries)
  PROVE  Planned(b, m) \in Tables /\ Copied(fl, Planned(b, m))
<1>1. PICK E \in Maps : E = m.entries
  BY DEF Docs
<1>2. PICK S : S = {x \in DOMAIN m.entries : x \in DOMAIN b.entries => b.entries[x] # m.entries[x]}
  OBVIOUS
<1>3. PICK B : B = Restrict2(E, S) /\ B \in Maps /\ Faithful(fl, B)
  <2>1. S \subseteq DOMAIN E /\ Faithful(fl, E)
    BY <1>1, <1>2
  <2> QED
    BY <2>1, RestrictIs
<1>4. Planned(b, m) = Records(B)
  BY <1>1, <1>2, <1>3 DEF Planned
<1> QED
  BY <1>3, <1>4, RecordsIs

\* A faithful cache seeds a faithful mirror.
LEMMA SeedIs ==
  ASSUME file \in Seq(Rows), cache \in Tables, Copied(file, cache)
  PROVE  Seed \in Docs /\ Faithful(file, Seed.entries)
<1>1. PICK R \in Tables : R = cache /\ \A o \in DOMAIN R : o \in 0..(Len(file) - 1) /\ R[o] = file[o + 1]
  BY DEF Copied
<1>2. \A o \in DOMAIN R : o \in Nat /\ R[o] \in Rows
  BY TableForm
<1>3. PICK B : B = SeedEntries
  OBVIOUS
<1>4. B = [x \in DOMAIN B |-> B[x]] /\ \A x : x \in DOMAIN B <=> \E o \in DOMAIN R : R[o].id = x
  BY <1>1, <1>3 DEF SeedEntries
<1>5. ASSUME NEW x \in DOMAIN B
      PROVE  \E o \in DOMAIN R : R[o].id = x /\ B[x] = Stored(file, o)
  <2>1. PICK o \in DOMAIN R : o = (CHOOSE p \in DOMAIN R : R[p].id = x) /\ R[o].id = x
    BY <1>4
  <2>2. B[x] = [parent |-> R[o].parent, sealed |-> TRUE, ord |-> o, body |-> Final]
    BY <1>1, <1>3, <2>1 DEF SeedEntries
  <2> QED
    BY <1>1, <2>1, <2>2 DEF Stored
<1>6. Faithful(file, B)
  BY <1>1, <1>5 DEF Faithful
<1>7. B \in Maps
  <2>1. ASSUME NEW x \in DOMAIN B PROVE x \in Ids /\ B[x] \in Entry
    <3>1. PICK o \in DOMAIN R : R[o].id = x /\ B[x] = Stored(file, o)
      BY <1>5
    <3>2. R[o] \in Rows /\ R[o] = file[o + 1] /\ o \in Nat
      BY <1>1, <1>2
    <3> QED
      BY <3>1, <3>2, IdNumbers DEF Rows, Stored, Entry
  <2> QED
    BY <1>4, <2>1, MapForm
<1>8. Seed.leaf \in Leaves /\ Seed \in [entries : {B}, leaf : {Seed.leaf}] /\ Seed.entries = B
  <2>1. CASE DOMAIN R = {}
    BY <1>1, <1>3, <2>1, IdNumbers DEF Seed
  <2>2. CASE DOMAIN R # {}
    <3>1. DOMAIN R \in SUBSET Nat /\ Len(file) \in Nat /\ \A o \in DOMAIN R : o <= Len(file)
      BY <1>1, <1>2
    <3>2. \E m \in DOMAIN R : \A y \in DOMAIN R : y <= m
      BY <2>2, <3>1, Greatest
    <3>3. PICK m \in DOMAIN R : m = CHOOSE o \in DOMAIN R : \A p \in DOMAIN R : p <= o
      BY <3>2
    <3>4. R[m].id \in Leaves
      BY <1>2 DEF Rows, Leaves
    <3>5. Seed = [entries |-> B, leaf |-> R[m].id]
      BY <1>1, <1>3, <2>2, <3>3 DEF Seed
    <3> QED
      BY <3>4, <3>5
  <2> QED
    BY <2>1, <2>2
<1> QED
  BY <1>6, <1>7, <1>8 DEF Docs

\* The cursor counts records the cache has.
LEMMA CursorIs ==
  ASSUME file \in Seq(Rows), cache \in Tables, Copied(file, cache)
  PROVE  Cursor \in Nat /\ \A o \in 0..(Cursor - 1) : o \in DOMAIN cache
<1>1. DOMAIN cache \in SUBSET (0..(Len(file) - 1))
  BY DEF Copied
<1>2. IsFiniteSet(0..(Len(file) - 1))
  <2>1. 0 \in Int /\ Len(file) - 1 \in Int
    OBVIOUS
  <2> QED
    BY <2>1, FS_Interval
<1>3. Cardinality(DOMAIN cache) \in Nat
  BY <1>1, <1>2, FS_Subset, FS_CardinalityType
<1> QED
  BY <1>3 DEF Cursor

-----------------------------------------------------------------------------
(* The mirrors.                                                            *)

\* A mirror has every entry of a Document, its leaf, and beyond them only live
\* forms.
WholeOf(d, m) ==
  /\ m.leaf = d.leaf
  /\ \A x \in DOMAIN d.entries : x \in DOMAIN m.entries /\ m.entries[x] = d.entries[x]
  /\ \A x \in DOMAIN m.entries \ DOMAIN d.entries : ~m.entries[x].sealed

\* A patch from one Document to another makes a whole mirror whole again.
LEMMA PatchKeepsWhole ==
  ASSUME NEW d, NEW d2, NEW m, WholeOf(d, m)
  PROVE  WholeOf(d2, Apply(m, Patch(d, d2)))
<1>1. PICK E, A, M : E = d.entries /\ A = d2.entries /\ M = m.entries
  OBVIOUS
<1>2. PICK B : B = Restrict2(A, {x \in DOMAIN A : x \in DOMAIN E => E[x] # A[x]})
  OBVIOUS
<1>3. /\ \A x : x \in DOMAIN B <=> x \in DOMAIN A /\ (x \in DOMAIN E => E[x] # A[x])
      /\ \A x \in DOMAIN B : B[x] = A[x]
  BY <1>2 DEF Restrict2
<1>4. PICK C : C = Put(Restrict2(M, DOMAIN M \ (DOMAIN E \ DOMAIN A)), B)
  OBVIOUS
<1>5. /\ \A x : x \in DOMAIN C <=> x \in DOMAIN B \/ (x \in DOMAIN M /\ (x \in DOMAIN E => x \in DOMAIN A))
      /\ \A x \in DOMAIN B : C[x] = B[x]
      /\ \A x \in DOMAIN C : x \notin DOMAIN B => C[x] = M[x]
  BY <1>4 DEF Restrict2, Put
<1>6. PICK m2 : m2 = Apply(m, Patch(d, d2)) /\ m2.entries = C /\ m2.leaf = d2.leaf
  <2>1. PICK f : f = Patch(d, d2)
    OBVIOUS
  <2>2. f = [kind |-> "patch", put |-> B, del |-> DOMAIN E \ DOMAIN A, leaf |-> d2.leaf]
    BY <1>1, <1>2, <2>1 DEF Patch
  <2>3. Apply(m, f) = [entries |-> C, leaf |-> d2.leaf]
    BY <1>1, <1>4, <2>2 DEF Apply
  <2> QED
    BY <2>1, <2>3
<1>7. /\ \A x \in DOMAIN E : x \in DOMAIN M /\ M[x] = E[x]
      /\ \A x \in DOMAIN M : x \notin DOMAIN E => ~M[x].sealed
  BY <1>1 DEF WholeOf
<1>8. \A x \in DOMAIN A : x \in DOMAIN C /\ C[x] = A[x]
  BY <1>3, <1>5, <1>7
<1>9. \A x \in DOMAIN C : x \notin DOMAIN A => ~C[x].sealed
  BY <1>3, <1>5, <1>7
<1>10. WholeOf(d2, m2)
  BY <1>1, <1>6, <1>8, <1>9 DEF WholeOf
<1> QED
  BY <1>6, <1>10

\* The entries a cursor counts are sealed in the mirror it is sent with.
Covered(fl, m, cursor) ==
  \A o \in 0..(cursor - 1) : /\ o < Len(fl) /\ fl[o + 1].id \in DOMAIN m.entries
                             /\ m.entries[fl[o + 1].id].sealed

\* Either form of the initial sync makes such a mirror whole.
LEMMA SyncMakesWhole ==
  ASSUME CoreInv, NEW d, NEW l, DocIs(file, d, l, Len(file)), NEW cursor \in Nat,
         NEW m, Faithful(file, m.entries), Covered(file, m, cursor)
  PROVE  WholeOf(d, Apply(m, InitialSync(d, cursor)))
<1>1. PICK A, M : A = d.entries /\ M = m.entries
  OBVIOUS
<1>2. PICK f : f = InitialSync(d, cursor)
  OBVIOUS
<1>3. CASE ~Valid(cursor)
  <2>1. f = [kind |-> "replace", put |-> A, del |-> {}, leaf |-> d.leaf]
    BY <1>1, <1>2, <1>3 DEF InitialSync
  <2>2. Apply(m, f) = [entries |-> A, leaf |-> d.leaf]
    BY <2>1 DEF Apply
  <2> QED
    BY <1>1, <1>2, <2>2 DEF WholeOf
<1>4. CASE Valid(cursor)
  <2>1. PICK B : B = Restrict2(A, {x \in DOMAIN A : A[x].sealed => A[x].ord >= cursor})
    OBVIOUS
  <2>2. /\ \A x : x \in DOMAIN B <=> x \in DOMAIN A /\ (A[x].sealed => A[x].ord >= cursor)
        /\ \A x \in DOMAIN B : B[x] = A[x]
    BY <2>1 DEF Restrict2
  <2>3. f = [kind |-> "delta", put |-> B, del |-> {}, leaf |-> d.leaf]
    BY <1>1, <1>2, <1>4, <2>1 DEF InitialSync
  <2>4. PICK C : C = Put(Restrict2(M, DOMAIN M \ {}), B)
    OBVIOUS
  <2>5. /\ \A x : x \in DOMAIN C <=> x \in DOMAIN B \/ x \in DOMAIN M
        /\ \A x \in DOMAIN B : C[x] = B[x]
        /\ \A x \in DOMAIN C : x \notin DOMAIN B => C[x] = M[x]
    BY <2>4 DEF Restrict2, Put
  <2>6. Apply(m, f) = [entries |-> C, leaf |-> d.leaf]
    BY <1>1, <2>3, <2>4 DEF Apply
  <2>7. PICK N \in Nat : N = Len(file)
    BY FileFacts
  <2>8. \A x \in DOMAIN M : M[x].sealed => \E o \in 0..(N - 1) : M[x] = Stored(file, o) /\ file[o + 1].id = x
    BY <1>1, <2>7 DEF Faithful
  <2>9. \A x \in DOMAIN A : A[x].sealed => \E o \in 0..(N - 1) : A[x] = Stored(file, o) /\ file[o + 1].id = x
    BY <1>1, <2>7 DEF Faithful, DocIs
  <2>10. ASSUME NEW x \in DOMAIN A, x \notin DOMAIN B PROVE x \in DOMAIN M /\ M[x] = A[x]
    <3>1. A[x].sealed /\ ~(A[x].ord >= cursor)
      BY <2>2, <2>10
    <3>2. PICK o \in 0..(N - 1) : A[x] = Stored(file, o) /\ file[o + 1].id = x
      BY <2>9, <3>1
    <3>3. A[x].ord = o
      BY <3>2 DEF Stored
    <3>4. o \in 0..(cursor - 1)
      BY <2>7, <3>1, <3>3
    <3>5. x \in DOMAIN M /\ M[x].sealed
      BY <1>1, <3>2, <3>4 DEF Covered
    <3>6. PICK p \in 0..(N - 1) : M[x] = Stored(file, p) /\ file[p + 1].id = x
      BY <2>8, <3>5
    <3>7. p = o
      <4>1. p + 1 \in 1..N /\ o + 1 \in 1..N
        BY <2>7
      <4>2. p + 1 = o + 1
        BY <2>7, <3>2, <3>6, <4>1, FileFacts DEF FileIs
      <4> QED
        BY <4>2
    <3> QED
      BY <3>2, <3>5, <3>6, <3>7
  <2>11. ASSUME NEW x \in DOMAIN M, x \notin DOMAIN A, M[x].sealed PROVE FALSE
    <3>1. PICK p \in 0..(N - 1) : file[p + 1].id = x
      BY <2>8, <2>11
    <3>2. p + 1 \in 1..N
      BY <2>7
    <3> QED
      BY <1>1, <2>7, <2>11, <3>1, <3>2 DEF DocIs
  <2>12. \A x \in DOMAIN A : x \in DOMAIN C /\ C[x] = A[x]
    BY <2>2, <2>5, <2>10
  <2>13. \A x \in DOMAIN C : x \notin DOMAIN A => ~C[x].sealed
    BY <2>2, <2>5, <2>11
  <2> QED
    BY <1>1, <1>2, <2>6, <2>12, <2>13 DEF WholeOf
<1> QED
  BY <1>3, <1>4

\* The course of a mirror through the frames on its way.
Course(m, w, f) ==
  /\ f = [n \in 0..Len(w) |-> f[n]] /\ f[0] = m
  /\ \A n \in 1..Len(w) : f[n] = Apply(f[n - 1], w[n])

\* There is one, and it ends in a whole mirror.
Tracks(d, m, w) ==
  /\ \E f : Course(m, w, f)
  /\ \A f : Course(m, w, f) => WholeOf(d, f[Len(w)])

\* A frame sent.
LEMMA TracksSent ==
  ASSUME NEW S, NEW w \in Seq(S), NEW m, NEW d, Tracks(d, m, w), NEW e \in S, NEW d2,
         \A m2 : WholeOf(d, m2) => WholeOf(d2, Apply(m2, e))
  PROVE  Tracks(d2, m, Append(w, e))
<1>1. PICK L \in Nat, v \in Seq(S) : /\ L = Len(w) /\ v = Append(w, e) /\ Len(v) = L + 1
                                     /\ v[L + 1] = e /\ \A i \in 1..L : v[i] = w[i]
  <2>1. /\ Len(w) \in Nat /\ Append(w, e) \in Seq(S) /\ Len(Append(w, e)) = Len(w) + 1
        /\ Append(w, e)[Len(w) + 1] = e /\ \A i \in 1..Len(w) : Append(w, e)[i] = w[i]
    OBVIOUS
  <2> QED
    BY <2>1
<1>2. PICK f : Course(m, w, f)
  BY DEF Tracks
<1>3. f = [n \in 0..L |-> f[n]] /\ f[0] = m /\ \A n \in 1..L : f[n] = Apply(f[n - 1], w[n])
  BY <1>1, <1>2 DEF Course
<1>4. PICK g : g = [n \in 0..(L + 1) |-> IF n = L + 1 THEN Apply(f[L], e) ELSE f[n]]
  OBVIOUS
<1>5. /\ g = [n \in 0..(L + 1) |-> g[n]] /\ g[0] = m
      /\ \A n \in 1..(L + 1) : g[n] = Apply(g[n - 1], v[n])
  <2>1. g = [n \in 0..(L + 1) |-> g[n]] /\ \A n \in 0..L : g[n] = f[n]
    BY <1>1, <1>4
  <2>2. g[L + 1] = Apply(f[L], e)
    BY <1>1, <1>4
  <2>3. ASSUME NEW n \in 1..(L + 1) PROVE g[n] = Apply(g[n - 1], v[n])
    <3>1. CASE n = L + 1
      <4>1. n - 1 = L /\ L \in 0..L
        BY <3>1
      <4> QED
        BY <1>1, <2>1, <2>2, <3>1, <4>1
    <3>2. CASE n \in 1..L
      <4>1. n \in 0..L /\ n - 1 \in 0..L
        BY <3>2
      <4> QED
        BY <1>1, <1>3, <2>1, <3>2, <4>1
    <3> QED
      BY <3>1, <3>2
  <2>4. 0 \in 0..L
    OBVIOUS
  <2> QED
    BY <1>3, <2>1, <2>3, <2>4
<1>6. Course(m, v, g)
  <2>1. L + 1 \in Nat
    OBVIOUS
  <2> QED
    BY <1>1, <1>5, <2>1 DEF Course
<1>7. ASSUME NEW h, Course(m, v, h) PROVE WholeOf(d2, h[Len(v)])
  <2>1. h = [n \in 0..(L + 1) |-> h[n]] /\ h[0] = m /\ \A n \in 1..(L + 1) : h[n] = Apply(h[n - 1], v[n])
    <3>1. L + 1 \in Nat
      OBVIOUS
    <3> QED
      BY <1>1, <1>7, <3>1 DEF Course
  <2>2. PICK k : k = [n \in 0..L |-> h[n]]
    OBVIOUS
  <2>3. k = [n \in 0..L |-> k[n]] /\ k[0] = m /\ \A n \in 0..L : k[n] = h[n]
    BY <2>1, <2>2
  <2>4. ASSUME NEW n \in 1..L PROVE k[n] = Apply(k[n - 1], w[n])
    <3>1. n \in 0..L /\ n - 1 \in 0..L /\ n \in 1..(L + 1)
      OBVIOUS
    <3> QED
      BY <1>1, <2>1, <2>3, <3>1
  <2>5. Course(m, w, k)
    BY <1>1, <2>3, <2>4 DEF Course
  <2>6. WholeOf(d, k[L])
    BY <1>1, <2>5 DEF Tracks
  <2>7. k[L] = h[L] /\ h[L + 1] = Apply(h[L], e)
    <3>1. L \in 0..L /\ L + 1 \in 1..(L + 1) /\ (L + 1) - 1 = L
      OBVIOUS
    <3> QED
      BY <1>1, <2>1, <2>3, <3>1
  <2> QED
    BY <1>1, <2>6, <2>7
<1> QED
  BY <1>1, <1>6, <1>7 DEF Tracks

\* A frame received.
LEMMA TracksReceived ==
  ASSUME NEW S, NEW w \in Seq(S), NEW m, NEW d, Tracks(d, m, w), w # <<>>
  PROVE  Tracks(d, Apply(m, Head(w)), Tail(w))
<1>1. PICK L \in Nat, v \in Seq(S) : /\ L + 1 = Len(w) /\ v = Tail(w) /\ Len(v) = L
                                     /\ Head(w) = w[1] /\ \A i \in 1..L : v[i] = w[i + 1]
  <2>1. /\ Len(w) \in Nat /\ Len(w) >= 1 /\ Tail(w) \in Seq(S) /\ Len(Tail(w)) = Len(w) - 1
        /\ Head(w) = w[1] /\ \A i \in 1..(Len(w) - 1) : Tail(w)[i] = w[i + 1]
    OBVIOUS
  <2>2. Len(w) - 1 \in Nat /\ (Len(w) - 1) + 1 = Len(w)
    BY <2>1
  <2> QED
    BY <2>1, <2>2
<1>2. PICK m2 : m2 = Apply(m, Head(w))
  OBVIOUS
<1>3. PICK f : Course(m, w, f)
  BY DEF Tracks
<1>w. L + 1 \in Nat
  OBVIOUS
<1>4. f = [n \in 0..(L + 1) |-> f[n]] /\ f[0] = m /\ \A n \in 1..(L + 1) : f[n] = Apply(f[n - 1], w[n])
  BY <1>1, <1>3, <1>w DEF Course
<1>5. PICK g : g = [n \in 0..L |-> f[n + 1]]
  OBVIOUS
<1>6. Course(m2, v, g)
  <2>1. g = [n \in 0..L |-> g[n]] /\ \A n \in 0..L : g[n] = f[n + 1]
    BY <1>5
  <2>2. g[0] = m2
    <3>1. 1 \in 1..(L + 1) /\ 1 - 1 = 0 /\ 0 + 1 = 1 /\ 0 \in 0..L
      OBVIOUS
    <3> QED
      BY <1>1, <1>2, <1>4, <2>1, <3>1
  <2>3. ASSUME NEW n \in 1..L PROVE g[n] = Apply(g[n - 1], v[n])
    <3>1. n \in 0..L /\ n - 1 \in 0..L /\ (n - 1) + 1 = n /\ n + 1 \in 1..(L + 1) /\ (n + 1) - 1 = n
      OBVIOUS
    <3>2. PICK k \in 1..(L + 1) : k = n + 1 /\ k - 1 = n
      BY <3>1
    <3>3. f[k] = Apply(f[n], w[k])
      BY <1>4, <3>2
    <3>4. g[n] = f[k] /\ g[n - 1] = f[n] /\ v[n] = w[k]
      BY <1>1, <2>1, <3>1, <3>2
    <3> QED
      BY <3>3, <3>4
  <2> QED
    BY <1>1, <2>1, <2>2, <2>3 DEF Course
<1>7. ASSUME NEW h, Course(m2, v, h) PROVE WholeOf(d, h[Len(v)])
  <2>1. h = [n \in 0..L |-> h[n]] /\ h[0] = m2 /\ \A n \in 1..L : h[n] = Apply(h[n - 1], v[n])
    BY <1>1, <1>7 DEF Course
  <2>2. PICK k : k = [n \in 0..(L + 1) |-> IF n = 0 THEN m ELSE h[n - 1]]
    OBVIOUS
  <2>3. /\ k = [n \in 0..(L + 1) |-> k[n]] /\ k[0] = m
        /\ \A n \in 1..(L + 1) : k[n] = h[n - 1]
    BY <2>2
  <2>4. ASSUME NEW n \in 1..(L + 1) PROVE k[n] = Apply(k[n - 1], w[n])
    <3>1. CASE n = 1
      <4>1. 1 \in 1..(L + 1) /\ 1 - 1 = 0
        OBVIOUS
      <4>2. k[1] = h[0] /\ k[0] = m /\ h[0] = Apply(m, w[1])
        BY <1>1, <1>2, <2>1, <2>3, <4>1
      <4> QED
        BY <3>1, <4>1, <4>2
    <3>2. CASE n # 1
      <4>1. n - 1 \in 1..L /\ n - 1 \in 1..(L + 1) /\ (n - 1) + 1 = n
        BY <3>2
      <4>2. PICK i \in 1..L : i = n - 1 /\ i + 1 = n
        BY <4>1
      <4>3. h[i] = Apply(h[i - 1], v[i]) /\ v[i] = w[n]
        BY <1>1, <2>1, <4>2
      <4>4. k[n] = h[i] /\ k[n - 1] = h[i - 1]
        BY <2>3, <4>1, <4>2
      <4> QED
        BY <4>3, <4>4
    <3> QED
      BY <3>1, <3>2
  <2>5. Course(m, w, k)
    BY <1>1, <1>w, <2>3, <2>4 DEF Course
  <2>6. WholeOf(d, k[L + 1])
    BY <1>1, <2>5 DEF Tracks
  <2>7. k[L + 1] = h[L]
    <3>1. L + 1 \in 1..(L + 1) /\ (L + 1) - 1 = L
      OBVIOUS
    <3> QED
      BY <2>3, <3>1
  <2> QED
    BY <1>1, <2>6, <2>7
<1> QED
  BY <1>1, <1>2, <1>6, <1>7 DEF Tracks

\* Nothing on the wire but one frame.
LEMMA TracksOne ==
  ASSUME NEW m, NEW d, NEW e, WholeOf(d, Apply(m, e))
  PROVE  Tracks(d, m, <<e>>)
<1>1. PICK v : v = <<e>> /\ Len(v) = 1 /\ v[1] = e
  <2>1. Len(<<e>>) = 1 /\ <<e>>[1] = e
    OBVIOUS
  <2> QED
    BY <2>1
<1>2. PICK g : g = [n \in 0..1 |-> IF n = 0 THEN m ELSE Apply(m, e)]
  OBVIOUS
<1>3. g = [n \in 0..1 |-> g[n]] /\ g[0] = m /\ g[1] = Apply(m, e)
  BY <1>2
<1>4. \A n \in 1..1 : n = 1 /\ n - 1 = 0
  OBVIOUS
<1>5. Course(m, v, g)
  BY <1>1, <1>3, <1>4 DEF Course
<1>6. ASSUME NEW h, Course(m, v, h) PROVE WholeOf(d, h[Len(v)])
  <2>1. h[0] = m /\ \A n \in 1..1 : h[n] = Apply(h[n - 1], v[n])
    BY <1>1, <1>6 DEF Course
  <2>2. h[1] = Apply(m, e)
    <3>1. 1 \in 1..1 /\ 1 - 1 = 0
      OBVIOUS
    <3> QED
      BY <1>1, <2>1, <3>1
  <2> QED
    BY <1>1, <2>2
<1> QED
  BY <1>1, <1>5, <1>6 DEF Tracks

-----------------------------------------------------------------------------
(* The tabs.                                                               *)

\* The records of the tabs.
TabRecs == [conn : {"off", "opening", "on"}, mirror : Docs, base : Docs, cursor : Nat,
            wire : Seq(Frames), writes : Seq(Writes), short : BOOLEAN]

\* What a tab holds, and what is on its way to it or to the cache, is faithful.
Copies(fl, r) ==
  /\ Faithful(fl, r.mirror.entries) /\ Faithful(fl, r.base.entries)
  /\ \A i \in 1..Len(r.wire) : Faithful(fl, r.wire[i].put)
  /\ \A i \in 1..Len(r.writes) : Copied(fl, r.writes[i].records)

\* What is known of a tab: its copies, its cursor, the course of its mirror.
TabIs(fl, d, r) ==
  /\ r \in TabRecs /\ Copies(fl, r)
  /\ r.conn = "opening" /\ ~r.short => Covered(fl, r.mirror, r.cursor)
  /\ r.conn = "on" /\ ~r.short => Tracks(d, r.mirror, r.wire)

\* Of all of them, and of the cache they share.
TabsInv  == tab \in [Tabs -> TabRecs] /\ \A t \in Tabs : TabIs(file, doc, tab[t])
CacheInv == cache \in Tables /\ Copied(file, cache)

\* A tab that agrees with the file agrees with a longer one.
LEMMA TabGrows ==
  ASSUME NEW fl \in Seq(Rows), NEW row \in Rows, NEW fl2, fl2 = Append(fl, row),
         NEW d, NEW r, TabIs(fl, d, r)
  PROVE  TabIs(fl2, d, r)
<1>1. (\A E : Faithful(fl, E) => Faithful(fl2, E)) /\ \A R : Copied(fl, R) => Copied(fl2, R)
  BY FaithfulGrows
<1>2. Copies(fl2, r)
  BY <1>1 DEF TabIs, Copies
<1>3. Covered(fl, r.mirror, r.cursor) => Covered(fl2, r.mirror, r.cursor)
  <2> SUFFICES ASSUME Covered(fl, r.mirror, r.cursor), NEW o \in 0..(r.cursor - 1)
               PROVE  /\ o < Len(fl2) /\ fl2[o + 1].id \in DOMAIN r.mirror.entries
                      /\ r.mirror.entries[fl2[o + 1].id].sealed
    BY DEF Covered
  <2>1. Len(fl2) = Len(fl) + 1 /\ Len(fl) \in Nat /\ \A i \in 1..Len(fl) : fl2[i] = fl[i]
    BY FileGrows
  <2>2. /\ o < Len(fl) /\ fl[o + 1].id \in DOMAIN r.mirror.entries
        /\ r.mirror.entries[fl[o + 1].id].sealed
    BY DEF Covered
  <2>3. r.cursor \in Nat
    BY DEF TabIs, TabRecs
  <2>4. o + 1 \in 1..Len(fl) /\ o < Len(fl2)
    BY <2>1, <2>2, <2>3
  <2> QED
    BY <2>1, <2>2, <2>4
<1> QED
  BY <1>2, <1>3 DEF TabIs

\* A tab that is not attached does not depend on the Document.
LEMMA TabElsewhere ==
  ASSUME NEW fl, NEW d, NEW r, TabIs(fl, d, r), r.conn # "on", NEW d2
  PROVE  TabIs(fl, d2, r)
  BY DEF TabIs

\* A published change.
LEMMA TabPatched ==
  ASSUME NEW fl, NEW d \in Docs, NEW d2 \in Docs, Faithful(fl, d2.entries),
         NEW r, TabIs(fl, d, r), r.conn = "on"
  PROVE  TabIs(fl, d2, [r EXCEPT !.wire = Append(@, Patch(d, d2))])
<1>1. PICK f \in Frames : f = Patch(d, d2) /\ Faithful(fl, f.put)
  BY PatchIs
<1>2. PICK w \in Seq(Frames) : w = r.wire /\ r \in TabRecs
  BY DEF TabIs, TabRecs
<1>3. PICK v \in Seq(Frames) : v = Append(w, f)
  <2>1. Append(w, f) \in Seq(Frames)
    OBVIOUS
  <2> QED
    BY <2>1
<1>4. Len(w) \in Nat /\ Len(v) = Len(w) + 1 /\ v[Len(w) + 1] = f /\ \A i \in 1..Len(w) : v[i] = w[i]
  BY <1>3
<1>5. PICK q : q = [r EXCEPT !.wire = Append(@, Patch(d, d2))]
  OBVIOUS
<1>6. /\ q \in TabRecs /\ q.conn = r.conn /\ q.mirror = r.mirror /\ q.base = r.base
      /\ q.wire = v /\ q.writes = r.writes /\ q.short = r.short /\ q.cursor = r.cursor
  BY <1>1, <1>2, <1>3, <1>5 DEF TabRecs
<1>7. \A i \in 1..Len(v) : Faithful(fl, v[i].put)
  <2>1. \A i \in 1..Len(v) : i \in 1..Len(w) \/ i = Len(w) + 1
    BY <1>4
  <2> QED
    BY <1>1, <1>2, <1>4, <2>1 DEF TabIs, Copies
<1>8. Copies(fl, q)
  BY <1>6, <1>7 DEF TabIs, Copies
<1>9. ~r.short => Tracks(d2, r.mirror, v)
  <2> SUFFICES ASSUME ~r.short PROVE Tracks(d2, r.mirror, v)
    OBVIOUS
  <2>1. Tracks(d, r.mirror, w)
    BY <1>2 DEF TabIs
  <2>2. \A m2 : WholeOf(d, m2) => WholeOf(d2, Apply(m2, f))
    BY <1>1, PatchKeepsWhole
  <2>3. Tracks(d2, r.mirror, Append(w, f))
    BY <2>1, <2>2, TracksSent
  <2> QED
    BY <1>3, <2>3
<1>10. TabIs(fl, d2, q)
  BY <1>6, <1>8, <1>9 DEF TabIs
<1> QED
  BY <1>5, <1>10

\* The attach of a tab, with the Document it has refreshed.
LEMMA TabAttached ==
  ASSUME CoreInv, NEW d, NEW r, TabIs(file, d, r), r.conn = "opening",
         NEW d2, NEW l, DocIs(file, d2, l, Len(file))
  PROVE  TabIs(file, d2, [r EXCEPT !.conn = "on", !.wire = <<InitialSync(d2, r.cursor)>>])
<1>1. r \in TabRecs /\ r.cursor \in Nat /\ d2 \in Docs /\ Faithful(file, d2.entries)
  BY DEF TabIs, TabRecs, DocIs
<1>2. PICK f \in Frames : f = InitialSync(d2, r.cursor) /\ Faithful(file, f.put)
  BY <1>1, SyncIs
<1>3. PICK v \in Seq(Frames) : v = <<f>> /\ Len(v) = 1 /\ v[1] = f
  <2>1. <<f>> \in Seq(Frames) /\ Len(<<f>>) = 1 /\ <<f>>[1] = f
    OBVIOUS
  <2> QED
    BY <2>1
<1>4. PICK q : q = [r EXCEPT !.conn = "on", !.wire = <<InitialSync(d2, r.cursor)>>]
  OBVIOUS
<1>5. /\ q \in TabRecs /\ q.conn = "on" /\ q.mirror = r.mirror /\ q.base = r.base
      /\ q.wire = v /\ q.writes = r.writes /\ q.short = r.short
  BY <1>1, <1>2, <1>3, <1>4 DEF TabRecs
<1>6. Copies(file, q)
  <2>1. \A i \in 1..Len(v) : v[i] = f
    BY <1>3
  <2> QED
    BY <1>2, <1>5, <2>1 DEF TabIs, Copies
<1>7. ~r.short => Tracks(d2, r.mirror, v)
  <2> SUFFICES ASSUME ~r.short PROVE Tracks(d2, r.mirror, v)
    OBVIOUS
  <2>1. Covered(file, r.mirror, r.cursor) /\ Faithful(file, r.mirror.entries)
    BY DEF TabIs, Copies
  <2>2. WholeOf(d2, Apply(r.mirror, f))
    BY <1>1, <1>2, <2>1, SyncMakesWhole
  <2> QED
    BY <1>3, <2>2, TracksOne
<1>8. TabIs(file, d2, q)
  BY <1>5, <1>6, <1>7 DEF TabIs
<1> QED
  BY <1>4, <1>8

\* A frame received, with the write it plans.
LEMMA TabReceived ==
  ASSUME NEW fl \in Seq(Rows), NEW d, NEW r, TabIs(fl, d, r), r.conn = "on", r.wire # <<>>,
         NEW m, m = Apply(r.mirror, Head(r.wire)),
         NEW ws, ws = r.writes \/ (\E w \in Writes : Copied(fl, w.records) /\ ws = Append(r.writes, w)),
         NEW q, q = [r EXCEPT !.mirror = m, !.base = m, !.wire = Tail(@), !.writes = ws]
  PROVE  TabIs(fl, d, q)
<1>1. PICK w \in Seq(Frames), x \in Seq(Writes) : w = r.wire /\ x = r.writes /\ r \in TabRecs /\ r.mirror \in Docs
  BY DEF TabIs, TabRecs
<1>2. /\ Len(w) \in Nat /\ Len(w) >= 1 /\ Tail(w) \in Seq(Frames) /\ Len(Tail(w)) = Len(w) - 1
      /\ Head(w) = w[1] /\ Head(w) \in Frames /\ \A i \in 1..(Len(w) - 1) : Tail(w)[i] = w[i + 1]
  BY <1>1
<1>3. /\ \A i \in 1..Len(w) : Faithful(fl, w[i].put) /\ Faithful(fl, r.mirror.entries)
      /\ \A i \in 1..Len(x) : Copied(fl, x[i].records)
  BY <1>1 DEF TabIs, Copies
<1>4. m \in Docs /\ Faithful(fl, m.entries)
  <2>1. 1 \in 1..Len(w)
    BY <1>2
  <2>2. Faithful(fl, Head(w).put) /\ Faithful(fl, r.mirror.entries)
    BY <1>2, <1>3, <2>1
  <2> QED
    BY <1>1, <1>2, <2>2, ApplyIs
<1>5. ws \in Seq(Writes) /\ \A i \in 1..Len(ws) : Copied(fl, ws[i].records)
  <2>1. CASE ws = r.writes
    BY <1>1, <1>3, <2>1
  <2>2. ASSUME NEW y \in Writes, Copied(fl, y.records), ws = Append(r.writes, y)
        PROVE  ws \in Seq(Writes) /\ \A i \in 1..Len(ws) : Copied(fl, ws[i].records)
    <3>1. /\ Append(x, y) \in Seq(Writes) /\ Len(x) \in Nat /\ Len(Append(x, y)) = Len(x) + 1
          /\ Append(x, y)[Len(x) + 1] = y /\ \A i \in 1..Len(x) : Append(x, y)[i] = x[i]
      OBVIOUS
    <3>2. \A i \in 1..(Len(x) + 1) : i \in 1..Len(x) \/ i = Len(x) + 1
      BY <3>1
    <3> QED
      BY <1>1, <1>3, <2>2, <3>1, <3>2
  <2> QED
    BY <2>1, <2>2
<1>6. /\ q \in TabRecs /\ q.conn = r.conn /\ q.mirror = m /\ q.base = m
      /\ q.wire = Tail(w) /\ q.writes = ws /\ q.short = r.short
  BY <1>1, <1>2, <1>4, <1>5 DEF TabRecs
<1>7. \A i \in 1..Len(Tail(w)) : Faithful(fl, Tail(w)[i].put)
  <2> SUFFICES ASSUME NEW i \in 1..Len(Tail(w)) PROVE Faithful(fl, Tail(w)[i].put)
    OBVIOUS
  <2>1. i \in 1..(Len(w) - 1) /\ i + 1 \in 1..Len(w)
    BY <1>2
  <2> QED
    BY <1>2, <1>3, <2>1
<1>8. Copies(fl, q)
  BY <1>4, <1>5, <1>6, <1>7 DEF Copies
<1>9. ~r.short => Tracks(d, m, Tail(w))
  <2> SUFFICES ASSUME ~r.short PROVE Tracks(d, m, Tail(w))
    OBVIOUS
  <2>1. Tracks(d, r.mirror, w) /\ w # <<>>
    BY <1>1 DEF TabIs
  <2>2. Tracks(d, Apply(r.mirror, Head(w)), Tail(w))
    BY <2>1, TracksReceived
  <2> QED
    BY <1>1, <2>2
<1> QED
  BY <1>6, <1>8, <1>9 DEF TabIs

\* A write that landed or failed.
LEMMA TabWrote ==
  ASSUME NEW fl, NEW d, NEW r, TabIs(fl, d, r), r.writes # <<>>
  PROVE  /\ TabIs(fl, d, [r EXCEPT !.writes = Tail(@)])
         /\ Head(r.writes) \in Writes /\ Copied(fl, Head(r.writes).records)
<1>1. PICK x \in Seq(Writes) : x = r.writes /\ r \in TabRecs
  BY DEF TabIs, TabRecs
<1>2. /\ Len(x) \in Nat /\ Len(x) >= 1 /\ Tail(x) \in Seq(Writes) /\ Len(Tail(x)) = Len(x) - 1
      /\ Head(x) = x[1] /\ Head(x) \in Writes /\ \A i \in 1..(Len(x) - 1) : Tail(x)[i] = x[i + 1]
  BY <1>1
<1>3. \A i \in 1..Len(x) : Copied(fl, x[i].records)
  BY <1>1 DEF TabIs, Copies
<1>4. \A i \in 1..Len(Tail(x)) : Copied(fl, Tail(x)[i].records)
  <2> SUFFICES ASSUME NEW i \in 1..Len(Tail(x)) PROVE Copied(fl, Tail(x)[i].records)
    OBVIOUS
  <2>1. i \in 1..(Len(x) - 1) /\ i + 1 \in 1..Len(x)
    BY <1>2
  <2> QED
    BY <1>2, <1>3, <2>1
<1>5. PICK q : q = [r EXCEPT !.writes = Tail(@)]
  OBVIOUS
<1>6. /\ q \in TabRecs /\ q.conn = r.conn /\ q.mirror = r.mirror /\ q.base = r.base /\ q.cursor = r.cursor
      /\ q.wire = r.wire /\ q.writes = Tail(x) /\ q.short = r.short
  BY <1>1, <1>2, <1>5 DEF TabRecs
<1>7. TabIs(fl, d, q)
  BY <1>4, <1>6 DEF TabIs, Copies
<1>8. Copied(fl, Head(x).records)
  <2>1. 1 \in 1..Len(x)
    BY <1>2
  <2> QED
    BY <1>2, <1>3, <2>1
<1> QED
  BY <1>1, <1>2, <1>5, <1>7, <1>8

\* A lost socket, with or without the page.
LEMMA TabOff ==
  ASSUME NEW fl, fl \in Seq(Rows), NEW d, NEW d2, NEW r, TabIs(fl, d, r)
  PROVE  /\ TabIs(fl, d2, Disconnected(r)) /\ Disconnected(r).conn = "off"
         /\ TabIs(fl, d2, [Disconnected(r) EXCEPT !.mirror = Empty, !.base = Empty])
<1>1. r \in TabRecs
  BY DEF TabIs
<1>2. <<>> \in Seq(Frames) /\ <<>> \in Seq(Writes) /\ \A i \in 1..Len(<<>>) : FALSE
  OBVIOUS
<1>3. PICK q : q = Disconnected(r)
  OBVIOUS
<1>4. /\ q \in TabRecs /\ q.conn = "off" /\ q.mirror = r.mirror /\ q.base = r.base
      /\ q.wire = <<>> /\ q.writes = <<>>
  BY <1>1, <1>2, <1>3 DEF TabRecs, Disconnected
<1>5. TabIs(fl, d2, q)
  BY <1>2, <1>4 DEF TabIs, Copies
<1>6. PICK p : p = [q EXCEPT !.mirror = Empty, !.base = Empty]
  OBVIOUS
<1>7. Empty \in Docs /\ Faithful(fl, Empty.entries)
  BY EmptyIs DEF DocIs
<1>8. /\ p \in TabRecs /\ p.conn = "off" /\ p.mirror = Empty /\ p.base = Empty
      /\ p.wire = <<>> /\ p.writes = <<>>
  BY <1>4, <1>6, <1>7 DEF TabRecs
<1>9. TabIs(fl, d2, p)
  BY <1>2, <1>7, <1>8 DEF TabIs, Copies
<1> QED
  BY <1>3, <1>4, <1>5, <1>6, <1>9

\* The inductive invariant.
DocInvs == CoreInv /\ DownInv /\ TabsInv /\ CacheInv

\* A tab prepares to attach.
LEMMA PrepareStep ==
  ASSUME DocInvs, NEW t \in Tabs, Prepare(t)
  PROVE  /\ tab' \in [Tabs -> TabRecs] /\ TabIs(file, doc, tab'[t])
         /\ \A u \in Tabs : u # t => tab'[u] = tab[u]
<1>1. /\ file \in Seq(Rows) /\ cache \in Tables /\ Copied(file, cache) /\ tab \in [Tabs -> TabRecs]
      /\ TabIs(file, doc, tab[t]) /\ tab[t] \in TabRecs
  BY FileFacts DEF DocInvs, TabsInv, CacheInv
<1>2. Seed \in Docs /\ Faithful(file, Seed.entries) /\ Cursor \in Nat /\ \A o \in 0..(Cursor - 1) : o \in DOMAIN cache
  BY <1>1, SeedIs, CursorIs
<1>3. PICK seed : seed = IF tab[t].base.entries # NoEntries THEN tab[t].base ELSE Seed
  OBVIOUS
<1>4. seed \in Docs /\ Faithful(file, seed.entries)
  <2>1. tab[t].base \in Docs /\ Faithful(file, tab[t].base.entries)
    BY <1>1 DEF TabIs, TabRecs, Copies
  <2> QED
    BY <1>2, <1>3, <2>1
<1>5. PICK sealed : sealed = {x \in DOMAIN seed.entries : seed.entries[x].sealed}
  OBVIOUS
<1>6. PICK short \in BOOLEAN : short = (\E o \in 0..Cursor - 1 : cache[o].id \notin sealed)
  OBVIOUS
<1>7. tab' = [tab EXCEPT ![t].conn = "opening", ![t].mirror = seed, ![t].base = seed,
                         ![t].cursor = Cursor, ![t].short = short]
  BY <1>3, <1>5, <1>6 DEF Prepare
<1>8. PICK r : r = tab[t] /\ r \in TabRecs
  BY <1>1
<1>9. PICK q : q = [r EXCEPT !.conn = "opening", !.mirror = seed, !.base = seed, !.cursor = Cursor, !.short = short]
  OBVIOUS
<1>10. /\ q \in TabRecs /\ q.conn = "opening" /\ q.mirror = seed /\ q.base = seed /\ q.cursor = Cursor
       /\ q.wire = r.wire /\ q.writes = r.writes /\ q.short = short
  BY <1>2, <1>4, <1>8, <1>9 DEF TabRecs
<1>11. tab'[t] = q /\ tab' \in [Tabs -> TabRecs] /\ \A u \in Tabs : u # t => tab'[u] = tab[u]
  BY <1>1, <1>7, <1>8, <1>9, <1>10
<1>12. Copies(file, q)
  BY <1>1, <1>4, <1>8, <1>10 DEF TabIs, Copies
<1>13. ~short => Covered(file, seed, Cursor)
  <2> SUFFICES ASSUME ~short, NEW o \in 0..(Cursor - 1)
               PROVE  o < Len(file) /\ file[o + 1].id \in DOMAIN seed.entries /\ seed.entries[file[o + 1].id].sealed
    BY DEF Covered
  <2>1. o \in DOMAIN cache /\ cache[o].id \in sealed
    BY <1>2, <1>6
  <2>2. o \in 0..(Len(file) - 1) /\ cache[o] = file[o + 1]
    BY <1>1, <2>1 DEF Copied
  <2>3. o < Len(file)
    BY <1>1, <2>2
  <2> QED
    BY <1>5, <2>1, <2>2, <2>3
<1>14. TabIs(file, doc, q)
  BY <1>10, <1>12, <1>13 DEF TabIs
<1> QED
  BY <1>11, <1>14

\* A frame arrives.
LEMMA ReceiveStep ==
  ASSUME DocInvs, NEW t \in Tabs, Receive(t)
  PROVE  /\ tab' \in [Tabs -> TabRecs] /\ TabIs(file, doc, tab'[t])
         /\ \A u \in Tabs : u # t => tab'[u] = tab[u]
<1>1. /\ file \in Seq(Rows) /\ tab \in [Tabs -> TabRecs] /\ TabIs(file, doc, tab[t])
  BY FileFacts DEF DocInvs, TabsInv
<1>2. PICK r \in TabRecs : r = tab[t] /\ r.conn = "on" /\ r.wire # <<>> /\ TabIs(file, doc, r)
  BY <1>1 DEF Receive
<1>3. PICK f \in Frames : f = Head(r.wire) /\ Faithful(file, f.put)
  <2>1. r.wire \in Seq(Frames)
    BY DEF TabRecs
  <2>2. Head(r.wire) \in Frames /\ Head(r.wire) = r.wire[1] /\ 1 \in 1..Len(r.wire)
    BY <1>2, <2>1
  <2> QED
    BY <1>2, <2>2 DEF TabIs, Copies
<1>4. PICK m \in Docs : m = Apply(r.mirror, f) /\ Faithful(file, m.entries)
  <2>1. r.mirror \in Docs /\ Faithful(file, r.mirror.entries)
    BY <1>2 DEF TabRecs, TabIs, Copies
  <2> QED
    BY <1>3, <2>1, ApplyIs
<1>5. PICK w : w = IF f.kind = "replace" THEN [repair |-> TRUE, records |-> Records(m.entries)]
                   ELSE [repair |-> FALSE, records |-> Planned(r.base, m)]
  OBVIOUS
<1>6. w \in Writes /\ Copied(file, w.records)
  <2>1. m.entries \in Maps /\ r.base \in Docs
    BY DEF Docs, TabRecs
  <2>2. Records(m.entries) \in Tables /\ Copied(file, Records(m.entries))
    BY <1>1, <1>4, <2>1, RecordsIs
  <2>3. Planned(r.base, m) \in Tables /\ Copied(file, Planned(r.base, m))
    BY <1>1, <1>4, <2>1, PlannedIs
  <2> QED
    BY <1>5, <2>2, <2>3 DEF Writes
<1>7. PICK ws : ws = IF w.repair \/ DOMAIN w.records # {} THEN Append(r.writes, w) ELSE r.writes
  OBVIOUS
<1>8. tab' = [tab EXCEPT ![t].mirror = m, ![t].base = m, ![t].wire = Tail(@), ![t].writes = ws]
  BY <1>2, <1>3, <1>4, <1>5, <1>7 DEF Receive
<1>9. PICK q : q = [r EXCEPT !.mirror = m, !.base = m, !.wire = Tail(@), !.writes = ws]
  OBVIOUS
<1>10. TabIs(file, doc, q)
  <2>1. ws = r.writes \/ \E y \in Writes : Copied(file, y.records) /\ ws = Append(r.writes, y)
    BY <1>6, <1>7
  <2>2. m = Apply(r.mirror, Head(r.wire))
    BY <1>3, <1>4
  <2> QED
    BY <1>1, <1>2, <1>9, <2>1, <2>2, TabReceived
<1>11. tab'[t] = q /\ \A u \in Tabs : u # t => tab'[u] = tab[u]
  BY <1>1, <1>2, <1>8, <1>9
<1>12. tab' \in [Tabs -> TabRecs]
  <2>1. q \in TabRecs
    BY <1>10 DEF TabIs
  <2> QED
    BY <1>1, <1>8, <1>11, <2>1
<1> QED
  BY <1>10, <1>11, <1>12

\* The rest of what a tab does.
LEMMA LossStep ==
  ASSUME DocInvs, NEW t \in Tabs, WriteLands(t) \/ WriteFails(t) \/ Lose(t) \/ Reload(t)
  PROVE  /\ tab' \in [Tabs -> TabRecs] /\ TabIs(file, doc, tab'[t])
         /\ \A u \in Tabs : u # t => tab'[u] = tab[u]
<1>1. /\ file \in Seq(Rows) /\ tab \in [Tabs -> TabRecs] /\ TabIs(file, doc, tab[t])
  BY FileFacts DEF DocInvs, TabsInv
<1>2. PICK r \in TabRecs : r = tab[t] /\ TabIs(file, doc, r)
  BY <1>1
<1>3. ASSUME NEW q, TabIs(file, doc, q), tab' = [tab EXCEPT ![t] = q]
      PROVE  /\ tab' \in [Tabs -> TabRecs] /\ TabIs(file, doc, tab'[t])
             /\ \A u \in Tabs : u # t => tab'[u] = tab[u]
  <2>1. q \in TabRecs
    BY <1>3 DEF TabIs
  <2> QED
    BY <1>1, <1>3, <2>1
<1>4. CASE WriteLands(t) \/ WriteFails(t)
  <2>1. PICK q : q = [r EXCEPT !.writes = Tail(@)]
    OBVIOUS
  <2>2. r.writes # <<>>
    BY <1>2, <1>4 DEF WriteLands, WriteFails
  <2>3. TabIs(file, doc, q)
    BY <1>2, <2>1, <2>2, TabWrote
  <2>4. tab' = [tab EXCEPT ![t] = q]
    BY <1>1, <1>2, <1>4, <2>1 DEF WriteLands, WriteFails
  <2> QED
    BY <1>3, <2>3, <2>4
<1>5. CASE Lose(t)
  <2>1. TabIs(file, doc, Disconnected(r))
    BY <1>1, <1>2, TabOff
  <2>2. tab' = [tab EXCEPT ![t] = Disconnected(r)]
    BY <1>2, <1>5 DEF Lose
  <2> QED
    BY <1>3, <2>1, <2>2
<1>6. CASE Reload(t)
  <2>1. TabIs(file, doc, [Disconnected(r) EXCEPT !.mirror = Empty, !.base = Empty])
    BY <1>1, <1>2, TabOff
  <2>2. tab' = [tab EXCEPT ![t] = [Disconnected(r) EXCEPT !.mirror = Empty, !.base = Empty]]
    BY <1>2, <1>6 DEF Reload
  <2> QED
    BY <1>3, <2>1, <2>2
<1> QED
  BY <1>4, <1>5, <1>6

\* What a handler publishes reaches every attached tab.
LEMMA PublishStep ==
  ASSUME DocInvs, Publish, doc' \in Docs, Faithful(file, doc'.entries)
  PROVE  /\ tab' \in [Tabs -> TabRecs] /\ \A t \in Tabs : TabIs(file, doc', tab'[t])
         /\ \A t \in Tabs : tab'[t].conn = tab[t].conn
<1>1. /\ tab \in [Tabs -> TabRecs] /\ \A t \in Tabs : TabIs(file, doc, tab[t])
  BY DEF DocInvs, TabsInv
<1>2. CASE doc' = doc
  BY <1>1, <1>2 DEF Publish
<1>3. CASE doc' # doc
  <2>1. PICK d2 \in Docs : d2 = doc' /\ Faithful(file, d2.entries)
    OBVIOUS
  <2>2. doc \in Docs
    BY DEF DocInvs, CoreInv, DocInv, DocIs
  <2>3. tab' = [t \in Tabs |-> IF tab[t].conn # "on" THEN tab[t]
                               ELSE [tab[t] EXCEPT !.wire = Append(@, Patch(doc, d2))]]
    BY <1>3, <2>1 DEF Publish
  <2>4. ASSUME NEW t \in Tabs PROVE TabIs(file, d2, tab'[t]) /\ tab'[t] \in TabRecs /\ tab'[t].conn = tab[t].conn
    <3>1. PICK r \in TabRecs : r = tab[t] /\ TabIs(file, doc, r)
      BY <1>1
    <3>2. CASE r.conn # "on"
      <4>1. tab'[t] = r
        BY <2>3, <3>1, <3>2
      <4> QED
        BY <3>1, <3>2, <4>1, TabElsewhere
    <3>3. CASE r.conn = "on"
      <4>1. tab'[t] = [r EXCEPT !.wire = Append(@, Patch(doc, d2))]
        BY <2>3, <3>1, <3>3
      <4>2. TabIs(file, d2, tab'[t])
        BY <2>1, <2>2, <3>1, <3>3, <4>1, TabPatched
      <4>3. tab'[t] \in TabRecs
        BY <4>2 DEF TabIs
      <4>4. tab'[t].conn = r.conn
        BY <4>1 DEF TabRecs
      <4> QED
        BY <3>1, <4>2, <4>3, <4>4
    <3> QED
      BY <3>2, <3>3
  <2>5. tab' \in [Tabs -> TabRecs]
    BY <2>3, <2>4
  <2> QED
    BY <2>1, <2>4, <2>5
<1> QED
  BY <1>2, <1>3

\* A tab attaches: the Document is refreshed, patched to the others and sent to it.
LEMMA AttachStep ==
  ASSUME DocInvs, NEW t \in Tabs, Attach(t)
  PROVE  tab' \in [Tabs -> TabRecs] /\ \A u \in Tabs : TabIs(file, doc', tab'[u])
<1>1. /\ tab \in [Tabs -> TabRecs] /\ \A u \in Tabs : TabIs(file, doc, tab[u])
  BY DEF DocInvs, TabsInv
<1>2. CoreInv /\ Refreshing /\ doc \in Docs
  BY DEF DocInvs, CoreInv, DocInv, DocIs, Refreshing
<1>3. PICK d2, l : d2 = doc' /\ l = live' /\ DocIs(file, d2, l, Len(file))
  BY <1>2, RefreshingStep
<1>4. d2 \in Docs /\ Faithful(file, d2.entries)
  BY <1>3 DEF DocIs
<1>5. tab' = [u \in Tabs |->
        IF u = t THEN [tab[t] EXCEPT !.conn = "on", !.wire = <<InitialSync(d2, tab[t].cursor)>>]
        ELSE IF tab[u].conn = "on" /\ d2 # doc
             THEN [tab[u] EXCEPT !.wire = Append(@, Patch(doc, d2))]
             ELSE tab[u]]
  BY <1>3 DEF Attach
<1>6. ASSUME NEW u \in Tabs PROVE TabIs(file, d2, tab'[u])
  <2>1. PICK r : r = tab[u] /\ TabIs(file, doc, r)
    BY <1>1
  <2>2. CASE u = t
    <3>1. r.conn = "opening"
      BY <2>1, <2>2 DEF Attach
    <3>2. tab'[u] = [r EXCEPT !.conn = "on", !.wire = <<InitialSync(d2, r.cursor)>>]
      BY <1>5, <2>1, <2>2
    <3>3. TabIs(file, d2, [r EXCEPT !.conn = "on", !.wire = <<InitialSync(d2, r.cursor)>>])
      BY <1>2, <1>3, <2>1, <3>1, TabAttached
    <3> QED
      BY <3>2, <3>3
  <2>3. CASE u # t /\ r.conn = "on" /\ d2 # doc
    <3>1. tab'[u] = [r EXCEPT !.wire = Append(@, Patch(doc, d2))]
      BY <1>5, <2>1, <2>3
    <3> QED
      BY <1>2, <1>4, <2>1, <2>3, <3>1, TabPatched
  <2>4. CASE u # t /\ (r.conn # "on" \/ d2 = doc)
    <3>1. tab'[u] = r
      BY <1>5, <2>1, <2>4
    <3> QED
      BY <2>1, <2>4, <3>1, TabElsewhere
  <2> QED
    BY <2>2, <2>3, <2>4
<1>7. \A u \in Tabs : tab'[u] \in TabRecs
  BY <1>6 DEF TabIs
<1>8. tab' \in [Tabs -> TabRecs]
  BY <1>5, <1>7
<1> QED
  BY <1>3, <1>6, <1>8

\* Every step keeps what is known of the tabs.
LEMMA TabsStep ==
  ASSUME DocInvs, [Next]_vars
  PROVE  TabsInv'
<1>1. CoreInv /\ file \in Seq(Rows) /\ tab \in [Tabs -> TabRecs] /\ \A u \in Tabs : TabIs(file, doc, tab[u])
  BY FileFacts DEF DocInvs, TabsInv
<1>2. ASSUME tab' \in [Tabs -> TabRecs], \A u \in Tabs : TabIs(file, doc', tab'[u]) PROVE TabsInv'
  <2>1. PICK d2, tb : d2 = doc' /\ tb = tab'
    OBVIOUS
  <2>2. \A u \in Tabs : TabIs(file, d2, tb[u])
    BY <1>2, <2>1
  <2>3. \A u \in Tabs : TabIs(file', d2, tb[u])
    <3>1. CASE file' = file
      BY <2>2, <3>1
    <3>2. ASSUME NEW row \in Rows, file' = Append(file, row) PROVE \A u \in Tabs : TabIs(file', d2, tb[u])
      BY <1>1, <2>2, <3>2, TabGrows
    <3> QED
      BY <1>1, <3>1, <3>2, FileStep
  <2> QED
    BY <1>2, <2>1, <2>3 DEF TabsInv
<1>3. ASSUME NEW t \in Tabs, TabStep(t) PROVE TabsInv'
  <2>1. /\ tab' \in [Tabs -> TabRecs] /\ TabIs(file, doc, tab'[t])
        /\ \A u \in Tabs : u # t => tab'[u] = tab[u]
    BY <1>3, PrepareStep, ReceiveStep, LossStep DEF TabStep
  <2>2. doc' = doc
    BY <1>3 DEF TabStep, Prepare, Receive, WriteLands, WriteFails, Lose, Reload, docVars
  <2>3. \A u \in Tabs : TabIs(file, doc, tab'[u])
    BY <1>1, <2>1
  <2> QED
    BY <1>2, <2>1, <2>2, <2>3
<1>4. ASSUME NEW t \in Tabs, Attach(t) PROVE TabsInv'
  BY <1>2, <1>4, AttachStep
<1>5. CASE Refreshing /\ Publish
  <2>1. doc' \in Docs /\ Faithful(file, doc'.entries)
    BY <1>1, <1>5, RefreshingStep DEF DocIs
  <2> QED
    BY <1>2, <1>5, <2>1, PublishStep
<1>6. Refreshing => Publish \/ \E t \in Tabs : Attach(t)
  BY DEF Refreshing, MessageStart, OtherEvent, AgentSettled, MessageUpdate, MessageEnd, Navigate
<1>7. CASE UNCHANGED <<doc, tab>>
  BY <1>1, <1>2, <1>7
<1>8. CASE SilentAppend \/ UNCHANGED vars
  BY <1>7, <1>8 DEF SilentAppend, vars, docVars
<1>9. CASE Crash
  <2>1. tab' = [t \in Tabs |-> Disconnected(tab[t])]
    BY <1>9 DEF Crash
  <2>2. PICK d2 : d2 = doc'
    OBVIOUS
  <2>3. \A u \in Tabs : TabIs(file, d2, Disconnected(tab[u]))
    BY <1>1, TabOff
  <2>4. \A u \in Tabs : TabIs(file, d2, tab'[u]) /\ tab'[u] \in TabRecs
    BY <2>1, <2>3 DEF TabIs
  <2>5. tab' \in [Tabs -> TabRecs]
    BY <2>1, <2>4
  <2> QED
    BY <1>2, <2>2, <2>4, <2>5
<1>10. CASE Restart
  <2>1. tab' = tab /\ \A u \in Tabs : tab[u].conn = "off"
    BY <1>10 DEF Restart, DocInvs, DownInv
  <2>2. PICK d2 : d2 = doc'
    OBVIOUS
  <2>3. \A u \in Tabs : TabIs(file, d2, tab[u])
    BY <1>1, <2>1, TabElsewhere
  <2> QED
    BY <1>1, <1>2, <2>1, <2>2, <2>3
<1> QED
  BY <1>3, <1>4, <1>5, <1>6, <1>8, <1>9, <1>10, NextSteps

\* The cache is written by a landing write only.
LEMMA CacheStep ==
  ASSUME DocInvs, [Next]_vars
  PROVE  CacheInv'
<1>1. CoreInv /\ file \in Seq(Rows) /\ cache \in Tables /\ Copied(file, cache)
  BY FileFacts DEF DocInvs, CacheInv
<1>2. ASSUME cache' \in Tables, Copied(file, cache') PROVE CacheInv'
  <2>1. PICK R : R = cache'
    OBVIOUS
  <2>2. Copied(file', R)
    BY <1>1, <1>2, <2>1, FileStep, FaithfulGrows
  <2> QED
    BY <1>2, <2>1, <2>2 DEF CacheInv
<1>3. CASE cache' = cache
  BY <1>1, <1>2, <1>3
<1>4. ASSUME NEW t \in Tabs, WriteLands(t) PROVE CacheInv'
  <2>1. PICK w \in Writes : w = Head(tab[t].writes) /\ Copied(file, w.records)
    <3>1. TabIs(file, doc, tab[t]) /\ tab[t].writes # <<>>
      BY <1>4 DEF DocInvs, TabsInv, WriteLands
    <3> QED
      BY <3>1, TabWrote
  <2>2. PICK R \in Tables : R = w.records /\ Copied(file, R)
    BY <2>1 DEF Writes
  <2>3. cache' = IF w.repair THEN R ELSE Put(cache, R)
    BY <1>4, <2>1, <2>2 DEF WriteLands
  <2>4. PICK P : P = Put(cache, R)
    OBVIOUS
  <2>5. /\ P = [o \in DOMAIN P |-> P[o]] /\ \A o : o \in DOMAIN P <=> o \in DOMAIN cache \/ o \in DOMAIN R
        /\ \A o \in DOMAIN P : P[o] = IF o \in DOMAIN R THEN R[o] ELSE cache[o]
    BY <2>4 DEF Put
  <2>6. P \in Tables
    <3>1. \A o \in DOMAIN P : o \in Nat /\ P[o] \in Rows
      BY <1>1, <2>5, TableForm
    <3> QED
      BY <2>5, <3>1, TableForm
  <2>7. Copied(file, P)
    BY <1>1, <2>2, <2>5 DEF Copied
  <2> QED
    BY <1>2, <2>2, <2>3, <2>4, <2>6, <2>7
<1>5. [Next]_vars => cache' = cache \/ \E t \in Tabs : WriteLands(t)
  BY DEF Next, MessageStart, SilentAppend, OtherEvent, AgentSettled, MessageUpdate, MessageEnd, Navigate,
     Prepare, Attach, Receive, WriteFails, Lose, Reload, Crash, Restart, vars
<1> QED
  BY <1>3, <1>4, <1>5

\* No tab is attached to a Worker that is down.
LEMMA DownStep ==
  ASSUME DocInvs, [Next]_vars
  PROVE  DownInv'
<1>1. CASE Crash
  <2>1. \A t \in Tabs : Disconnected(tab[t]).conn = "off"
    BY TabOff, FileFacts DEF DocInvs, TabsInv
  <2> QED
    BY <1>1, <2>1 DEF Crash, DownInv
<1>2. CASE up' = TRUE
  BY <1>2 DEF DownInv
<1>3. ASSUME ~up, NEW t \in Tabs, WriteFails(t) \/ WriteLands(t) PROVE DownInv'
  <2>1. \A u \in Tabs : tab'[u].conn = tab[u].conn
    <3>1. tab' = [tab EXCEPT ![t].writes = Tail(@)]
      BY <1>3 DEF WriteLands, WriteFails
    <3>2. tab \in [Tabs -> TabRecs] /\ tab[t] \in TabRecs
      BY DEF DocInvs, TabsInv
    <3>3. \A u \in Tabs : u # t => tab'[u] = tab[u]
      BY <3>1, <3>2
    <3>4. PICK r \in TabRecs : r = tab[t] /\ tab'[t] = [r EXCEPT !.writes = Tail(@)]
      BY <3>1, <3>2
    <3>5. [r EXCEPT !.writes = Tail(@)].conn = r.conn
      BY DEF TabRecs
    <3> QED
      BY <3>3, <3>4, <3>5
  <2> QED
    BY <1>3, <2>1 DEF DocInvs, DownInv, WriteLands, WriteFails, piVars, docVars
<1>4. ASSUME ~up, UNCHANGED vars PROVE DownInv'
  BY <1>4 DEF DocInvs, DownInv, vars, piVars, docVars
<1>5. ~up /\ [Next]_vars => \/ Restart \/ UNCHANGED vars \/ \E t \in Tabs : WriteLands(t) \/ WriteFails(t)
  BY DEF Next, MessageStart, SilentAppend, OtherEvent, AgentSettled, MessageUpdate, MessageEnd, Navigate,
     Prepare, Attach, Receive, Lose, Reload, Crash, DocInvs, DownInv
<1>6. up /\ [Next]_vars => Crash \/ up' = up
  BY DEF Next, MessageStart, SilentAppend, OtherEvent, AgentSettled, MessageUpdate, MessageEnd, Navigate,
     Prepare, Attach, Receive, WriteLands, WriteFails, Lose, Reload, Restart, vars
<1>7. Restart => up' = TRUE
  BY DEF Restart
<1>9. CASE ~up
  BY <1>2, <1>3, <1>4, <1>5, <1>7, <1>9
<1>10. CASE up /\ ~Crash
  <2>1. up'
    BY <1>6, <1>10
  <2> QED
    BY <2>1 DEF DownInv
<1> QED
  BY <1>1, <1>9, <1>10

\* The Worker starts in the invariant.
LEMMA DocInitially == Init => DocInvs
<1> SUFFICES ASSUME Init PROVE DocInvs
  OBVIOUS
<1>1. file = <<>> /\ <<>> \in Seq(Rows) /\ Len(<<>>) = 0 /\ <<>> \in Seq(Frames) /\ <<>> \in Seq(Writes)
  BY DEF Init
<1>2. FileInv
  BY <1>1 DEF Init, FileInv, FileIs, FileIds
<1>3. DocInv
  BY <1>1, EmptyIs DEF Init, DocInv
<1>4. Empty \in Docs /\ Faithful(file, Empty.entries)
  BY <1>1, EmptyIs DEF DocIs
<1>5. DownInv
  BY DEF Init, DownInv
<1>6. PICK r : r = [conn |-> "off", mirror |-> Empty, base |-> Empty,
                    cursor |-> 0, wire |-> <<>>, writes |-> <<>>, short |-> FALSE]
  OBVIOUS
<1>7. r \in TabRecs /\ r.conn = "off" /\ r.mirror = Empty /\ r.base = Empty /\ r.wire = <<>> /\ r.writes = <<>>
  BY <1>1, <1>4, <1>6 DEF TabRecs
<1>8. TabIs(file, doc, r)
  BY <1>1, <1>4, <1>7 DEF TabIs, Copies
<1>9. TabsInv
  BY <1>6, <1>7, <1>8 DEF Init, TabsInv
<1>10. CacheInv
  <2>1. NoEntries \in Tables /\ DOMAIN NoEntries = {}
    BY TableForm DEF NoEntries
  <2> QED
    BY <2>1 DEF Init, CacheInv, Copied
<1> QED
  BY <1>2, <1>3, <1>5, <1>9, <1>10 DEF DocInvs, CoreInv

\* Every step keeps the invariant.
LEMMA DocInductive == DocInvs /\ [Next]_vars => DocInvs'
<1> SUFFICES ASSUME DocInvs, [Next]_vars PROVE DocInvs'
  OBVIOUS
<1>1. FileInv' /\ DocInv'
  BY FileStep, DocStep DEF DocInvs
<1>2. TabsInv' /\ CacheInv' /\ DownInv'
  BY TabsStep, CacheStep, DownStep
<1> QED
  BY <1>1, <1>2 DEF DocInvs, CoreInv

\* The invariant holds throughout.
LEMMA DocInvariance == Spec => []DocInvs
  BY DocInitially, DocInductive, PTL DEF Spec

\* planCacheWrites and replaceSession: a cached record is the entry the file holds
\* at its position, whichever tab wrote it and whichever writes failed.
THEOREM CacheFaithful == Spec => []CacheIsFile
<1>1. DocInvs => CacheIsFile
  <2> SUFFICES ASSUME DocInvs, NEW o \in DOMAIN cache PROVE o < Len(file) /\ file[o + 1] = cache[o]
    BY DEF CacheIsFile
  <2>1. o \in 0..(Len(file) - 1) /\ cache[o] = file[o + 1] /\ Len(file) \in Nat
    BY FileFacts DEF DocInvs, CacheInv, Copied
  <2> QED
    BY <2>1
<1> QED
  BY <1>1, DocInvariance, PTL

\* projection.ts, refresh and settle: what the Document has sealed stays as it is
\* while the Worker lives.
THEOREM SealedKept == Spec => SealedStays
<1>1. DocInvs /\ [Next]_vars =>
        [up' => \A x \in DOMAIN doc.entries : doc.entries[x].sealed =>
           x \in DOMAIN doc'.entries /\ doc'.entries[x] = doc.entries[x]]_vars
  BY DocStep DEF DocInvs, Keeps
<1> QED
  BY <1>1, DocInvariance, PTL DEF Spec, SealedStays

\* projection.ts, effectiveLeaf: the parents of the leaf the Document shows lead to
\* the root without leaving the Document.
THEOREM LeafRooted == Spec => []LeafIsRooted
<1>1. DocInvs => LeafIsRooted
  <2> SUFFICES ASSUME DocInvs, doc.leaf # None PROVE PathOf(doc.entries, doc.leaf) \subseteq DOMAIN doc.entries
    BY DEF LeafIsRooted
  <2>1. PICK E, l : /\ E = doc.entries /\ l = doc.leaf /\ l \in DOMAIN E
                    /\ \A x \in DOMAIN E : E[x].parent \in DOMAIN E \cup {None}
    BY DEF DocInvs, CoreInv, DocInv, DocIs
  <2>2. PICK ids : ids = DOMAIN E \cup {l} \cup {E[x].parent : x \in DOMAIN E}
    OBVIOUS
  <2>3. PICK S : S = {x \in ids : x \in DOMAIN E \/ x = None}
    OBVIOUS
  <2>4. S \in SUBSET ids /\ l \in S /\ \A x \in S \cap DOMAIN E : E[x].parent \in S
    BY <2>1, <2>2, <2>3
  <2>5. \A x \in PathOf(E, l) : x \in S /\ x # None
    BY <2>2, <2>4 DEF PathOf
  <2> QED
    BY <2>1, <2>3, <2>5
<1> QED
  BY <1>1, DocInvariance, PTL

\* manager.ts addConnection and emitPatch, sync.ts: when its frames are in, an
\* attached mirror has every entry of the Document and its leaf.
THEOREM MirrorsWhole == Spec => []MirrorHasDocument
<1>1. DocInvs => MirrorHasDocument
  <2> SUFFICES ASSUME DocInvs, NEW t \in Tabs, tab[t].conn = "on", ~tab[t].short PROVE Whole(t)
    BY DEF MirrorHasDocument
  <2>1. PICK m, w : m = tab[t].mirror /\ w = tab[t].wire /\ w \in Seq(Frames) /\ Tracks(doc, m, w)
    BY DEF DocInvs, TabsInv, TabIs, TabRecs
  <2>2. PICK L \in Nat : L = Len(w)
    BY <2>1
  <2>3. PICK f : Course(m, w, f)
    BY <2>1 DEF Tracks
  <2>4. f = [n \in 0..L |-> IF n = 0 THEN m ELSE Apply(f[n - 1], w[n])]
    <3>1. f = [n \in 0..L |-> f[n]] /\ f[0] = m /\ \A n \in 1..L : f[n] = Apply(f[n - 1], w[n])
      BY <2>2, <2>3 DEF Course
    <3>2. \A n \in 0..L : f[n] = IF n = 0 THEN m ELSE Apply(f[n - 1], w[n])
      BY <3>1
    <3> QED
      BY <3>1, <3>2
  <2>5. PICK g : g = CHOOSE h : h = [n \in 0..L |-> IF n = 0 THEN m ELSE Apply(h[n - 1], w[n])]
    OBVIOUS
  <2>6. g = [n \in 0..L |-> IF n = 0 THEN m ELSE Apply(g[n - 1], w[n])]
    BY <2>4, <2>5
  <2>7. Course(m, w, g)
    <3>1. \A n \in 0..L : g[n] = IF n = 0 THEN m ELSE Apply(g[n - 1], w[n])
      BY <2>6
    <3>2. g = [n \in 0..L |-> g[n]] /\ g[0] = m /\ \A n \in 1..L : g[n] = Apply(g[n - 1], w[n])
      <4>1. g[0] = m
        BY <3>1
      <4>2. \A n \in 1..L : g[n] = Apply(g[n - 1], w[n])
        BY <3>1
      <4>3. DOMAIN g = 0..L /\ g = [n \in DOMAIN g |-> g[n]]
        BY <2>6
      <4> QED
        BY <4>1, <4>2, <4>3
    <3> QED
      BY <2>2, <3>2 DEF Course
  <2>8. WholeOf(doc, g[L])
    BY <2>1, <2>2, <2>7 DEF Tracks
  <2>9. Arriving(t) = g[L]
    BY <2>1, <2>2, <2>5 DEF Arriving
  <2> QED
    BY <2>8, <2>9 DEF Whole, WholeOf
<1> QED
  BY <1>1, DocInvariance, PTL

=============================================================================
