---------------------------- MODULE LRUCacheOps ----------------------------
(***************************************************************************)
(* The data structure of FixedSizeLRUCache<ValueType, MaxSize>: MaxSize    *)
(* entries threaded on a doubly linked list in order of use, and an        *)
(* open-addressing hash table of 2 * MaxSize slots that holds the indices  *)
(* of the entries.  A cache is one record; an operation maps a record to   *)
(* the record it leaves behind.  The C++ array of structs is kept here as  *)
(* one function per field.                                                 *)
(*                                                                         *)
(* The content store, the pending interest table and both tables of the    *)
(* FIB are built on this structure.  Removable is the set of keys its      *)
(* owner may remove.  The content store and the FIB of the running program *)
(* never call remove (Removable = {}); the pending interest table removes  *)
(* every name it forwards Data for (Removable = Keys).                     *)
(***************************************************************************)
EXTENDS Integers, FiniteSets

CONSTANTS
  Keys,       \* the names that may be used as a key
  Values,     \* the values that may be stored
  MaxSize,    \* the build-time capacity
  Hash,       \* the 32-bit string hash of each key
  Removable,
  NoKey,      \* the cleared string of an entry that is not in use
  NoValue     \* the default-constructed value of an entry never written

ASSUME CacheAssumption ==
  /\ MaxSize \in Nat \ {0}
  /\ Hash \in [Keys -> Nat]
  /\ Removable \subseteq Keys
  /\ NoKey \notin Keys
  /\ NoValue \notin Values

Nil == -1                      \* no entry, no slot
NumSlots == 2 * MaxSize
Slots   == 0 .. NumSlots - 1
Entries == 0 .. MaxSize - 1

CacheType ==
  [ key : [Entries -> Keys \cup {NoKey}], value : [Entries -> Values \cup {NoValue}],
    prev : [Entries -> Entries \cup {Nil}], next : [Entries -> Entries \cup {Nil}],
    valid : [Entries -> BOOLEAN], hashTable : [Slots -> Entries \cup {Nil}],
    head : Entries \cup {Nil}, tail : Entries \cup {Nil}, currentSize : 0 .. MaxSize ]

EmptyCache ==
  [ key |-> [i \in Entries |-> NoKey], value |-> [i \in Entries |-> NoValue],
    prev |-> [i \in Entries |-> Nil], next |-> [i \in Entries |-> Nil],
    valid |-> [i \in Entries |-> FALSE], hashTable |-> [s \in Slots |-> Nil],
    head |-> Nil, tail |-> Nil, currentSize |-> 0 ]

ValidEntries(c) == {i \in Entries : c.valid[i]}
EmptySlots(c) == {s \in Slots : c.hashTable[s] = Nil}
UsedSlots(c) == Slots \ EmptySlots(c)

-----------------------------------------------------------------------------
(* The hash table, searched by linear probing from the key's home slot.    *)

Home(k) == Hash[k] % NumSlots

\* How many steps a probe that starts at the home of k takes to reach slot s.
Distance(k, s) == IF s >= Home(k) THEN s - Home(k) ELSE s + NumSlots - Home(k)

\* The first slot of S that a probe for k meets.
FirstProbed(k, S) ==
  IF S = {} THEN Nil
  ELSE CHOOSE s \in S : \A t \in S : Distance(k, s) <= Distance(k, t)

\* The slots whose entry is in use for key k.
SlotsOf(c, k) ==
  {s \in UsedSlots(c) : c.valid[c.hashTable[s]] /\ c.key[c.hashTable[s]] = k}

\* The probe ends at the first slot that is empty or holds k.
FindHashSlot(c, k) ==
  LET s == FirstProbed(k, EmptySlots(c) \cup SlotsOf(c, k))
  IN  IF s \in SlotsOf(c, k) THEN s ELSE Nil

\* Faulty: the lowest empty slot of the table, wherever the probe starts.
LowestEmptySlot(c, k) ==
  IF EmptySlots(c) = {} THEN Nil
  ELSE CHOOSE s \in EmptySlots(c) : \A t \in EmptySlots(c) : s <= t

FindEmptyHashSlot(c, k) == FirstProbed(k, EmptySlots(c))

FindEmptyEntry(c) ==
  LET free == Entries \ ValidEntries(c)
  IN  IF free = {} THEN Nil ELSE CHOOSE i \in free : \A j \in free : i <= j

-----------------------------------------------------------------------------
(* The list of entries, most recently used first.                          *)

\* Write field f of entry i, unless i is the null index.
Link(f, i, j) == IF i = Nil THEN f ELSE [f EXCEPT ![i] = j]

PushFront(c, i) ==
  [c EXCEPT !.prev = [Link(c.prev, c.head, i) EXCEPT ![i] = Nil],
            !.next[i] = c.head,
            !.head = i,
            !.tail = IF c.tail = Nil THEN i ELSE c.tail]

\* Faulty: the entry is not unlinked from where it was.
PushAgain(c, i) == IF i = c.head THEN c ELSE PushFront(c, i)

MoveToFront(c, i) ==
  IF i = c.head THEN c
  ELSE PushFront([c EXCEPT !.next = Link(c.next, c.prev[i], c.next[i]),
                           !.prev = Link(c.prev, c.next[i], c.prev[i]),
                           !.tail = IF i = c.tail THEN c.prev[i] ELSE c.tail], i)

\* Faulty: the head is not moved when it is the entry unlinked.
UnlinkKeepingHead(c, i) ==
  [c EXCEPT !.next = [Link(c.next, c.prev[i], c.next[i]) EXCEPT ![i] = Nil],
            !.prev = [Link(c.prev, c.next[i], c.prev[i]) EXCEPT ![i] = Nil],
            !.tail = IF c.next[i] = Nil THEN c.prev[i] ELSE c.tail]

RemoveFromList(c, i) ==
  [c EXCEPT !.next = [Link(c.next, c.prev[i], c.next[i]) EXCEPT ![i] = Nil],
            !.prev = [Link(c.prev, c.next[i], c.prev[i]) EXCEPT ![i] = Nil],
            !.head = IF c.prev[i] = Nil THEN c.next[i] ELSE c.head,
            !.tail = IF c.next[i] = Nil THEN c.prev[i] ELSE c.tail]

-----------------------------------------------------------------------------
(* The public operations.                                                  *)

Contains(c, k) == FindHashSlot(c, k) # Nil

\* Faulty: neither the size nor the entries are looked at.
CanInsertUnchecked(c, k) == FindEmptyHashSlot(c, k) # Nil

\* A new key needs room, a free entry and an empty slot; nothing is evicted.
CanInsert(c, k) ==
  /\ c.currentSize < MaxSize
  /\ FindEmptyEntry(c) # Nil
  /\ FindEmptyHashSlot(c, k) # Nil

\* Faulty: the entry is moved to the front but keeps its value.
TouchOnly(c, k, v) == MoveToFront(c, c.hashTable[FindHashSlot(c, k)])

Update(c, k, v) ==
  LET i == c.hashTable[FindHashSlot(c, k)]
  IN  MoveToFront([c EXCEPT !.value[i] = v], i)

Insert(c, k, v) ==
  LET i == FindEmptyEntry(c)
  IN  PushFront([c EXCEPT !.key[i] = k, !.value[i] = v, !.valid[i] = TRUE,
                          !.hashTable[FindEmptyHashSlot(c, k)] = i,
                          !.currentSize = c.currentSize + 1], i)

PutOk(c, k) == Contains(c, k) \/ CanInsert(c, k)

PutCache(c, k, v) ==
  IF Contains(c, k) THEN Update(c, k, v)
  ELSE IF CanInsert(c, k) THEN Insert(c, k, v) ELSE c

\* The value get copies out; meaningful when the cache contains k.
ValueOf(c, k) == c.value[c.hashTable[FindHashSlot(c, k)]]

\* Faulty: a get leaves the entry where it is.
GetUnmoved(c, k) == c

\* A get counts as a use of the entry.
GetCache(c, k) ==
  IF Contains(c, k) THEN MoveToFront(c, c.hashTable[FindHashSlot(c, k)]) ELSE c

\* Faulty: the slot is not emptied.
RemoveKeepingSlot(c, k) ==
  IF ~Contains(c, k) THEN c
  ELSE LET i == c.hashTable[FindHashSlot(c, k)]
       IN  [RemoveFromList(c, i) EXCEPT !.key[i] = NoKey, !.valid[i] = FALSE,
                                        !.currentSize = c.currentSize - 1]

\* The slot is emptied without a tombstone.
RemoveCache(c, k) ==
  IF ~Contains(c, k) THEN c
  ELSE LET s == FindHashSlot(c, k)
           i == c.hashTable[s]
       IN  [RemoveFromList(c, i) EXCEPT !.hashTable[s] = Nil, !.key[i] = NoKey,
                                        !.valid[i] = FALSE,
                                        !.currentSize = c.currentSize - 1]

\* The values are left where they are.
ClearCache(c) == [EmptyCache EXCEPT !.value = c.value]
-----------------------------------------------------------------------------
(* The map a cache stands for: what its entries in use hold, whether or    *)
(* not the hash table leads to them.                                       *)

EntriesOf(c, k) == {i \in ValidEntries(c) : c.key[i] = k}

ContentsOf(c) ==
  [k \in Keys |-> IF EntriesOf(c, k) = {} THEN NoValue
                  ELSE c.value[CHOOSE i \in EntriesOf(c, k) : TRUE]]

-----------------------------------------------------------------------------
(* What a cache must satisfy whoever owns it.                              *)

\* The hash table and the entries agree: each used slot points at an entry in
\* use, each entry in use has one slot and no more, and the size counter counts
\* them.  put, remove and clear each maintain all three separately.
IndexOK(c) ==
  /\ \A s \in UsedSlots(c) : c.valid[c.hashTable[s]]
  /\ \A s, t \in UsedSlots(c) : c.hashTable[s] = c.hashTable[t] => s = t
  /\ \A i \in ValidEntries(c) : \E s \in UsedSlots(c) : c.hashTable[s] = i
  /\ c.currentSize = Cardinality(ValidEntries(c))

\* The links thread the entries of V: neighbours point back at each other, the
\* head is the one entry without a predecessor and the tail the one without a
\* successor.
ListOver(c, V) ==
  /\ c.head \in V \cup {Nil} /\ c.tail \in V \cup {Nil}
  /\ c.head = Nil <=> V = {}
  /\ c.tail = Nil <=> V = {}
  /\ \A i \in V :
       /\ c.prev[i] = Nil <=> c.head = i
       /\ c.next[i] = Nil <=> c.tail = i
       /\ c.prev[i] # Nil => c.prev[i] \in V /\ c.next[c.prev[i]] = i
       /\ c.next[i] # Nil => c.next[i] \in V /\ c.prev[c.next[i]] = i

LinksOK(c) == ListOver(c, ValidEntries(c))

\* A key in use is found by its own probe, at its own slot: nothing stored is
\* out of reach of get, contains, remove and of the update branch of put.
NothingLost(c) ==
  \A s \in UsedSlots(c) : FindHashSlot(c, c.key[c.hashTable[s]]) = s

\* No key is stored twice: a put of a stored key updates it.
KeysUnique(c) ==
  \A i, j \in ValidEntries(c) : c.key[i] = c.key[j] => i = j

\* Removal cannot break a probe when nothing is removed or when no two names share a
\* home slot.
CollisionSafe ==
  \/ Removable = {}
  \/ \A k, l \in Keys : Home(k) = Home(l) => k = l
=============================================================================
