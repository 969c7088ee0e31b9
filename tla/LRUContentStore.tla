-------------------------- MODULE LRUContentStore --------------------------
(***************************************************************************)
(* The content store of a node: a cache from names to payload slots, and   *)
(* the slots themselves, each a heap or PSRAM buffer.  Both have           *)
(* CS_ENTRIES places, and each call updates the two in turn.               *)
(*                                                                         *)
(* A buffer is modelled by the content copied into it; where it was        *)
(* allocated and its length only show in the log.  An allocation may fail. *)
(***************************************************************************)
EXTENDS LRUCacheOps

CONSTANTS Contents, NoContent

\* The keys of the cache are the names, its values the indices of payload slots.
Names == Keys
Capacity == MaxSize    \* CS_ENTRIES
PayloadSlots == 0 .. Capacity - 1
NoSlot == -1

ASSUME ContentStoreAssumption ==
  /\ Values = PayloadSlots /\ NoValue = NoSlot
  /\ NoContent \notin Contents

VARIABLES
  cache,     \* names to indices of payload slots
  payload,   \* the content in the buffer of each slot, NoContent when it is not in use
  call,      \* the last call and its arguments; memory: whether there was a buffer to be had
  answer     \* what the last get returned

vars == <<cache, payload, call, answer>>

Init ==
  /\ cache = EmptyCache
  /\ payload = [p \in PayloadSlots |-> NoContent]
  /\ call = <<>>
  /\ answer = NoContent

FreeSlots == {p \in PayloadSlots : payload[p] = NoContent}
FindFreePayloadSlot ==
  IF FreeSlots = {} THEN NoSlot ELSE CHOOSE p \in FreeSlots : \A q \in FreeSlots : p <= q

\* Faulty: the null slot is released too, an element before the array.
ReleaseUnchecked(slots, p) ==
  [q \in PayloadSlots \cup {p} |-> IF q = p THEN NoContent ELSE slots[q]]

\* Releasing the null slot does nothing.
ReleasePayloadSlot(slots, p) == IF p = NoSlot THEN slots ELSE [slots EXCEPT ![p] = NoContent]

\* Where the cache leads for name n.
SlotFor(n) == IF Contains(cache, n) THEN ValueOf(cache, n) ELSE NoSlot

\* Faulty: the slot of the content that is replaced is not released.
SaveLeaking(n, c, memory) ==
  LET touched == GetCache(cache, n)
      new == FindFreePayloadSlot
      put == PutOk(touched, n)
  IN  /\ call' = <<"save", n, c, memory>>
      /\ IF ~memory \/ new = NoSlot
         THEN cache' = touched /\ UNCHANGED payload
         ELSE /\ cache' = PutCache(touched, n, new)
              /\ payload' = IF put THEN [payload EXCEPT ![new] = c] ELSE payload
      /\ UNCHANGED answer

\* The look-up of the old slot counts as a use.  The new payload is stored first;
\* then the name is put in the cache, and whichever slot lost its name is released.
Save(n, c, memory) ==
  LET touched == GetCache(cache, n)
      old == SlotFor(n)
      new == FindFreePayloadSlot
      stored == [payload EXCEPT ![new] = c]
  IN  /\ call' = <<"save", n, c, memory>>
      /\ IF ~memory \/ new = NoSlot
         THEN cache' = touched /\ UNCHANGED payload
         ELSE /\ cache' = PutCache(touched, n, new)
              /\ payload' = IF PutOk(touched, n)
                            THEN ReleasePayloadSlot(stored, old)
                            ELSE ReleasePayloadSlot(stored, new)
      /\ UNCHANGED answer

Get(n) ==
  /\ call' = <<"get", n>>
  /\ cache' = GetCache(cache, n)
  /\ answer' = IF SlotFor(n) = NoSlot THEN NoContent ELSE payload[SlotFor(n)]
  /\ UNCHANGED payload

Remove(n) ==
  /\ n \in Removable
  /\ call' = <<"remove", n>>
  /\ cache' = RemoveCache(GetCache(cache, n), n)
  /\ payload' = ReleasePayloadSlot(payload, SlotFor(n))
  /\ UNCHANGED answer

\* Faulty: the names are forgotten, the payload slots stay in use.
ClearNamesOnly ==
  /\ call' = <<"clear">>
  /\ cache' = ClearCache(cache)
  /\ UNCHANGED <<payload, answer>>

Clear ==
  /\ call' = <<"clear">>
  /\ cache' = ClearCache(cache)
  /\ payload' = [p \in PayloadSlots |-> NoContent]
  /\ UNCHANGED answer

Next ==
  \/ \E n \in Names, c \in Contents, memory \in BOOLEAN : Save(n, c, memory)
  \/ \E n \in Names : Get(n) \/ Remove(n)
  \/ Clear

Spec == Init /\ [][Next]_vars

-----------------------------------------------------------------------------
(* Properties.                                                             *)

\* The cache is well formed and the slots hold contents.
TypeOK ==
  /\ cache \in CacheType
  /\ payload \in [PayloadSlots -> Contents \cup {NoContent}]
  /\ answer \in Contents \cup {NoContent}

\* Every payload slot in use belongs to exactly one entry in use, and every entry
\* in use has one: no buffer leaks, none is freed under a name or shared by two.
SlotsOwned ==
  LET entries == ValidEntries(cache)
  IN  /\ {cache.value[i] : i \in entries} = PayloadSlots \ FreeSlots
      /\ \A i, j \in entries : cache.value[i] = cache.value[j] => i = j

ContentOf ==
  [n \in Names |-> IF SlotFor(n) = NoSlot THEN NoContent ELSE payload[SlotFor(n)]]

Promise == INSTANCE ContentStoreSpec WITH store <- ContentOf

\* Saves, look-ups and clears have the effect ContentStoreSpec gives them,
\* whatever the names hash to and whichever allocations fail.
ImplementsContentStore == Promise!Spec
=============================================================================
