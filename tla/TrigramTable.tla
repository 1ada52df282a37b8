---------------------------- MODULE TrigramTable ----------------------------
(***************************************************************************)
(* The trigram lookup table that the filename database (df-core/src/db.rs) *)
(* and the content shard (df-content/src/shard.rs) share: a Robin Hood     *)
(* open-addressed hash over encoded posting lists, and the query engine    *)
(* over it (df-core/src/candidate.rs, query.rs and boolquery.rs).          *)
(*                                                                         *)
(* The hash is a parameter h, so that every pattern of collisions and of   *)
(* wrap-around is explored.  One slot (key, count, off, len) is one cell;  *)
(* docids are zero-based as in the code.                                   *)
(***************************************************************************)
EXTENDS Trigrams, Codec

EmptySlot == [key |-> NoValue]

\* The order of the packed 24-bit keys, which is the BTreeMap's.
KeyLess(t, u) == \/ t[1] < u[1]
                 \/ t[1] = u[1] /\ t[2] < u[2]
                 \/ t[1] = u[1] /\ t[2] = u[2] /\ t[3] < u[3]

\* entry(t).or_default().push(id) for every trigram of the folded text.
Indexed(try_map, text, id) ==
    LET tris == trigrams(fold(text))
        old(t) == IF t \in DOMAIN try_map THEN try_map[t] ELSE <<>>
    IN  [t \in DOMAIN try_map \cup tris |->
            IF t \in tris THEN Append(old(t), id) ELSE old(t)]

Deltas(post)   == [i \in 1..Len(post) |-> IF i = 1 THEN post[1] ELSE post[i] - post[i - 1]]
Undelta(delta) ==
    LET prev[i \in 0..Len(delta)] == IF i = 0 THEN 0 ELSE prev[i - 1] + delta[i]
    IN  [i \in 1..Len(delta) |-> prev[i]]

\* The keys of the BTreeMap in its order.
SortedKeys(keys) ==
    [k \in 1..Cardinality(keys) |->
        CHOOSE t \in keys : Cardinality({u \in keys : KeyLess(u, t)}) = k - 1]

\* The encoded posting lists in key order, and the table entries that point
\* into them; the offsets are absolute from `base`.
PostingSection(try_map) ==
    LET keys == SortedKeys(DOMAIN try_map)
    IN  [k \in 1..Len(keys) |-> encode(Deltas(try_map[keys[k]]))]

Entries(try_map, base) ==
    LET keys == SortedKeys(DOMAIN try_map)
        encs == PostingSection(try_map)
    IN  [k \in 1..Len(keys) |->
            [key |-> keys[k], count |-> Len(try_map[keys[k]]),
             off |-> base + Len(FlattenSeq(SubSeq(encs, 1, k - 1))),
             len |-> Len(encs[k])]]

\* (2 * n).next_power_of_two(), and no table at all for no key.
PowerOfTwo(j) == LET pow[i \in 0..j] == IF i = 0 THEN 1 ELSE 2 * pow[i - 1] IN pow[j]

Slots(n) ==
    IF n = 0 THEN 0
    ELSE PowerOfTwo(CHOOSE j \in 1..(2 * n) : 2 * n <= PowerOfTwo(j) /\ PowerOfTwo(j) < 4 * n)

slots_log2(slots) == IF slots = 0 THEN 0 ELSE CHOOSE j \in 1..slots : PowerOfTwo(j) = slots

\* What open() makes of the stored slots_log2: 0 stands for no table.
SlotsOf(log2) == IF log2 = 0 THEN 0 ELSE PowerOfTwo(log2)

\* The slot that probe number p for key looks at, and how far the key in slot
\* idx is from its ideal slot.
ProbeSlot(h, key, p, slots) == ((h[key] % slots) + p) % slots
ProbeLength(h, key, idx, slots) == (idx + slots - (h[key] % slots)) % slots

write_slot(table, idx, e) ==
    SubSeq(table, 1, idx) \o <<e>> \o SubSeq(table, idx + 2, Len(table))

\* One turn of the insertion loop, which carries entry e with its probe count
\* to slot idx: it is put down in an empty slot, it displaces an entry that is
\* nearer to its ideal slot, or it moves on.
PlaceStep(h, s) ==
    LET slots == Len(s.table)
        there == s.table[s.idx + 1]
        their == ProbeLength(h, there.key, s.idx, slots)
        next  == (s.idx + 1) % slots
    IN  IF s.e = EmptySlot THEN s
        ELSE IF there = EmptySlot
             THEN [table |-> write_slot(s.table, s.idx, s.e), idx |-> s.idx,
                   e |-> EmptySlot, probe |-> s.probe]
        ELSE IF s.probe > their
             THEN [table |-> write_slot(s.table, s.idx, s.e), idx |-> next,
                   e |-> there, probe |-> their + 1]
        ELSE [table |-> s.table, idx |-> next, e |-> s.e, probe |-> s.probe + 1]

\* Put entry e into the table: every slot is looked at once at most.
Place(h, table, e) ==
    LET after[p \in 0..Len(table)] ==
            IF p = 0 THEN [table |-> table, idx |-> h[e.key] % Len(table), e |-> e, probe |-> 0]
            ELSE PlaceStep(h, after[p - 1])
    IN  after[Len(table)].table

build_robin_hood(h, entries, slots) ==
    LET filled[n \in 0..Len(entries)] ==
            IF n = 0 THEN [i \in 1..slots |-> EmptySlot]
            ELSE Place(h, filled[n - 1], entries[n])
    IN  filled[Len(entries)]

\* Mutation: a key as far from its ideal slot as trig is ends the probe too.
Lookup_Eager(h, table, trig) ==
    LET at(p)  == table[ProbeSlot(h, trig, p, Len(table)) + 1]
        gone(p) == \/ at(p) = EmptySlot
                   \/ p > 0 /\ p >= ProbeLength(h, at(p).key, ProbeSlot(h, trig, p, Len(table)), Len(table))
        last   == Min({p \in 0..Len(table) : gone(p) \/ at(p).key = trig})
    IN  IF gone(last) THEN NoValue ELSE at(last)

\* The slot that holds trig, or NoValue: the probe ends at trig, at an empty
\* slot, or at a key nearer to its ideal slot than trig would be.
Lookup(h, table, trig) ==
    LET at(p)  == table[ProbeSlot(h, trig, p, Len(table)) + 1]
        gone(p) == \/ at(p) = EmptySlot
                   \/ p > ProbeLength(h, at(p).key, ProbeSlot(h, trig, p, Len(table)), Len(table))
        last   == Min({p \in 0..Len(table) : gone(p) \/ at(p).key = trig})
    IN  IF gone(last) THEN NoValue ELSE at(last)

\* posting(trig): the decoded docids, NoValue for a trigram not in the table.
posting(h, table, postings, trig) ==
    IF Len(table) = 0 THEN NoValue
    ELSE LET slot == Lookup(h, table, trig)
         IN  IF slot = NoValue THEN NoValue
             ELSE Undelta(decode(Slice(postings, slot.off, slot.len), slot.count))

(***************************************************************************)
(* candidate.rs: rarest-trigram candidates, each verified, capped at limit.*)
(***************************************************************************)
Truncated(s, limit) == IF limit = NoValue THEN s ELSE SubSeq(s, 1, Min({limit, Len(s)}))

AllDocids(n) == [i \in 1..n |-> i - 1]

\* The docids to verify: all of them when the needle has no trigram, none when
\* a trigram of it is absent, the shortest posting list otherwise.  lists maps
\* the needle's trigrams to their posting lists, NoValue for an absent one.
CandidateDocids(lists, numDocs, folded) ==
    IF Len(folded) < 3 THEN AllDocids(numDocs)
    ELSE IF \E t \in DOMAIN lists : lists[t] = NoValue THEN <<>>
    ELSE lists[CHOOSE t \in DOMAIN lists : \A u \in DOMAIN lists : Len(lists[t]) <= Len(lists[u])]

\* The loop over the docids, which pushes the ones that verify.
Kept(ids, verified) ==
    LET out[i \in 0..Len(ids)] ==
            IF i = 0 THEN <<>>
            ELSE IF ids[i] \in verified THEN Append(out[i - 1], ids[i])
            ELSE out[i - 1]
    IN  out[Len(ids)]

\* verified is the set of the documents that verify.
candidates(lists, verified, numDocs, folded, limit) ==
    Truncated(Kept(CandidateDocids(lists, numDocs, folded), verified), limit)
=============================================================================
