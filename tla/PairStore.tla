----------------------------- MODULE PairStore -----------------------------
(***************************************************************************)
(* The persisted pairings of one master: PairingStore (platform/persistence *)
(* .cpp) with its write-through blob cache, as driven by persistPair,       *)
(* removal and EspNowManager::restore().                                    *)
(*                                                                         *)
(* A pairing is spread over several blobs - the pair record, the channel,   *)
(* the index and the sequence counter - and each is written on its own.     *)
(* Every operation is therefore a list of commands (todo), one flash write  *)
(* each; a write may fail and power may be lost between any two.            *)
(***************************************************************************)
EXTENDS Naturals, Sequences, FiniteSets, SequencesExt

CONSTANTS Peers,            \* addresses of the slaves
          Lmks,             \* link keys, the content of a pair record
          MaxPairedSlaves,  \* kMaxPairedSlaves: 15 in the code
          RestorePairLimit, \* kRestorePairLimit: 14 in the code
          MaxSeq,           \* bound: pair sequence numbers handed out
          Channel,          \* content of a channel record; there is only one channel
          None, Unknown

ASSUME StoreBounds == /\ MaxPairedSlaves \in Nat /\ RestorePairLimit \in Nat
                      /\ MaxSeq \in Nat \ {0}

VARIABLES
  flash,     \* flash[b]: content of blob b in the backend, or None
  cache,     \* blob_cache_: Unknown, None (known missing) or the content
  todo,      \* commands of the running operation still to execute
  run,       \* the operation's locals: record key, assigned sequence, success
  promised,  \* history: the key of a pairing whose persistPair returned true
  gone       \* history: peers whose last erasePair returned true

vars == <<flash, cache, todo, run, promised, gone>>

-----------------------------------------------------------------------------
(* Blobs and commands.                                                      *)

PairOf(p) == <<"pair", p>>
ChanOf(p) == <<"channel", p>>
Index     == <<"index">>
Counter   == <<"counter">>
Blobs     == {PairOf(p) : p \in Peers} \cup {ChanOf(p) : p \in Peers} \cup {Index, Counter}

IndexEntries == [peer : Peers, seq : 1 .. MaxSeq]

(* The contents the index can have: every peer at most once.                *)
Contents == UNION {[1 .. n -> IndexEntries] : n \in 1 .. Cardinality(Peers)}

Commands == [cmd : {"putPair", "assignSeq", "upsert", "putChannel",
                    "erasePair", "unindex", "eraseChannel"}, peer : Peers]

(* The locals of an operation before it has done anything.                  *)
NoRun == [lmk |-> None, seq |-> 0, ok |-> TRUE]

Cmd(c, p) == [cmd |-> c, peer |-> p]

SaveCommands(p)  == <<Cmd("putPair", p), Cmd("assignSeq", p), Cmd("upsert", p),
                      Cmd("putChannel", p)>>
EraseCommands(p) == <<Cmd("erasePair", p), Cmd("unindex", p), Cmd("eraseChannel", p)>>

-----------------------------------------------------------------------------
(* The blob cache over the backend.                                         *)

(* getBlobCached: a known blob is answered from the cache.                  *)
Load(b) == IF cache[b] # Unknown THEN cache[b] ELSE flash[b]

(* The cache after loading the blobs in B.                                  *)
Loaded(B) == [b \in Blobs |-> IF b \in B THEN Load(b) ELSE cache[b]]

(* What putBlobIfChanged compares with: a missing blob is read again.       *)
Current(b) == IF cache[b] \notin {Unknown, None} THEN cache[b] ELSE flash[b]

(* Fault: the cache is updated before the write, which may still fail.      *)
PutCachesFirst(b, v, c) ==
  IF Current(b) = v
  THEN {[ok |-> TRUE, flash |-> flash, cache |-> [c EXCEPT ![b] = v]]}
  ELSE {[ok |-> k, flash |-> IF k THEN [flash EXCEPT ![b] = v] ELSE flash,
         cache |-> [c EXCEPT ![b] = v]] : k \in BOOLEAN}

(* putBlobIfChanged(b, v) over the cache c: an equal content is not         *)
(* written; a failed write leaves what was read in the cache.               *)
Put(b, v, c) ==
  IF Current(b) = v
  THEN {[ok |-> TRUE, flash |-> flash, cache |-> [c EXCEPT ![b] = v]]}
  ELSE {[ok |-> TRUE, flash |-> [flash EXCEPT ![b] = v], cache |-> [c EXCEPT ![b] = v]],
        [ok |-> FALSE, flash |-> flash, cache |-> [c EXCEPT ![b] = Current(b)]]}

(* eraseBlobIfExists(b): nothing to do for a blob known or read as missing; *)
(* a failed erase leaves the cache as it was.                               *)
Erase(b, c) ==
  IF Load(b) = None
  THEN {[ok |-> TRUE, flash |-> flash, cache |-> [c EXCEPT ![b] = None]]}
  ELSE {[ok |-> TRUE, flash |-> [flash EXCEPT ![b] = None], cache |-> [c EXCEPT ![b] = None]],
        [ok |-> FALSE, flash |-> flash, cache |-> c]}

(* savePairIndex: an empty index is erased.                                 *)
SaveIndex(entries, c) ==
  IF entries = <<>> THEN Erase(Index, c) ELSE Put(Index, entries, c)

Entries(v) == IF v = None THEN <<>> ELSE v

Indexed(entries, p) == \E i \in DOMAIN entries : entries[i].peer = p

SequenceNo(entries, p) == entries[CHOOSE i \in DOMAIN entries : entries[i].peer = p].seq

Without(entries, p) == SelectSeq(entries, LAMBDA e : e.peer # p)

(* upsertPairIndexEntry: replace the entry's sequence or append it.         *)
Upserted(entries, p, n) ==
  IF Indexed(entries, p)
  THEN [i \in DOMAIN entries |-> IF entries[i].peer = p THEN [peer |-> p, seq |-> n]
                                 ELSE entries[i]]
  ELSE Append(entries, [peer |-> p, seq |-> n])

(* getPersistedPeers: indexed peers that have a record.                     *)
Listed == {p \in Peers : Indexed(Entries(flash[Index]), p) /\ flash[PairOf(p)] # None}

-----------------------------------------------------------------------------
(* Commands.                                                                *)

Idle == todo = <<>>

Done(r) == flash' = r.flash /\ cache' = r.cache

(* The command is over: what is left to do and whether all went well.       *)
Advance(rest, ok) == todo' = rest /\ run' = [run EXCEPT !.ok = ok]

Executing(c) == ~Idle /\ Head(todo).cmd = c

(* savePair, first write; on failure only saveChannel is still attempted.   *)
PutPair ==
  /\ Executing("putPair")
  /\ LET p == Head(todo).peer
     IN \E r \in Put(PairOf(p), run.lmk, cache) :
          /\ Done(r)
          /\ IF r.ok THEN Advance(Tail(todo), run.ok)
             ELSE Advance(<<Cmd("putChannel", p)>>, FALSE)
  /\ UNCHANGED <<promised, gone>>

(* savePair: keep the sequence of an indexed peer, or take the next one and *)
(* store its successor before the index refers to it.                       *)
AssignFrom(first) ==
  /\ Executing("assignSeq")
  /\ LET p       == Head(todo).peer
         entries == Entries(Load(Index))
         next    == IF Load(Counter) = None THEN first ELSE Load(Counter)
     IN \/ /\ Indexed(entries, p)
           /\ todo' = Tail(todo)
           /\ run' = [run EXCEPT !.seq = SequenceNo(entries, p)]
           /\ cache' = Loaded({Index}) /\ UNCHANGED flash
        \/ /\ ~Indexed(entries, p)
           /\ \E r \in Put(Counter, next + 1, Loaded({Index, Counter})) :
                /\ Done(r)
                /\ IF r.ok THEN todo' = Tail(todo) /\ run' = [run EXCEPT !.seq = next]
                   ELSE Advance(<<Cmd("putChannel", p)>>, FALSE)
  /\ UNCHANGED <<promised, gone>>

AssignSeq == AssignFrom(1)

(* savePair, last write: the index.                                         *)
UpsertInto(entries) ==
  /\ Executing("upsert")
  /\ \E r \in Put(Index, Upserted(entries, Head(todo).peer, run.seq), Loaded({Index})) :
       Done(r) /\ Advance(Tail(todo), run.ok /\ r.ok)
  /\ UNCHANGED <<promised, gone>>

(* Fault: the new entry replaces the index.                                 *)
UpsertReplaces == UpsertInto(<<>>)

Upsert == UpsertInto(Entries(Load(Index)))

(* saveChannel, and the end of persistPair: true when both writes were.     *)
PutChannel ==
  /\ Executing("putChannel")
  /\ LET p == Head(todo).peer
     IN \E r \in Put(ChanOf(p), Channel, cache) :
          /\ Done(r)
          /\ promised' = [promised EXCEPT ![p] = IF run.ok /\ r.ok THEN run.lmk ELSE None]
  /\ todo' = Tail(todo) /\ run' = NoRun
  /\ UNCHANGED gone

(* erasePair, first write.                                                  *)
ErasePair ==
  /\ Executing("erasePair")
  /\ \E r \in Erase(PairOf(Head(todo).peer), cache) : Done(r) /\ Advance(Tail(todo), r.ok)
  /\ UNCHANGED <<promised, gone>>

(* erasePair, second write (also after a failed first one), and its result. *)
Unindex ==
  /\ Executing("unindex")
  /\ LET p == Head(todo).peer
         entries == Load(Index)
     IN \E r \in IF entries = None
                 THEN {[ok |-> TRUE, flash |-> flash, cache |-> Loaded({Index})]}
                 ELSE SaveIndex(Without(entries, p), Loaded({Index})) :
          /\ Done(r)
          /\ gone' = IF run.ok /\ r.ok THEN gone \cup {p} ELSE gone
  /\ Advance(Tail(todo), TRUE)
  /\ UNCHANGED promised

EraseChannel ==
  /\ Executing("eraseChannel")
  /\ \E r \in Erase(ChanOf(Head(todo).peer), cache) : Done(r)
  /\ Advance(Tail(todo), TRUE)
  /\ UNCHANGED <<promised, gone>>

(* restore(): write the index that memory holds.                            *)
SetIndex ==
  /\ Executing("setIndex")
  /\ \E r \in SaveIndex(Head(todo).index, cache) : Done(r)
  /\ Advance(Tail(todo), TRUE)
  /\ UNCHANGED <<promised, gone>>

-----------------------------------------------------------------------------
(* Operations.                                                              *)

(* persistPair at the end of a handshake, which the management layer lets   *)
(* begin only below capacity.                                               *)
Persist(p, k) ==
  /\ Idle
  /\ Cardinality(Listed) < MaxPairedSlaves
  /\ flash[Counter] # None => flash[Counter] < MaxSeq
  /\ todo' = SaveCommands(p)
  /\ run' = [NoRun EXCEPT !.lmk = k]
  /\ promised' = [promised EXCEPT ![p] = None]
  /\ gone' = gone \ {p}
  /\ UNCHANGED <<flash, cache>>

(* removePeer(erase_persisted), onUnpairAck or the deferred cleanup.        *)
Forget(p) ==
  /\ Idle
  /\ todo' = EraseCommands(p)
  /\ promised' = [promised EXCEPT ![p] = None]
  /\ UNCHANGED <<flash, cache, run, gone>>

(* restore(): drop the entries without a record, order the rest by          *)
(* sequence, keep the oldest RestorePairLimit, bring up their links (B are  *)
(* the peers the radio refuses) and rewrite the index if anything changed.  *)
RestoreCommands(entries, B) ==
  LET has(e)   == flash[PairOf(e.peer)] # None
      stale    == SelectSeq(entries, LAMBDA e : ~has(e))
      ordered  == SortSeq(SelectSeq(entries, has), LAMBDA a, b : a.seq < b.seq)
      keep     == SubSeq(ordered, 1, IF Len(ordered) < RestorePairLimit
                                     THEN Len(ordered) ELSE RestorePairLimit)
      dropped  == SubSeq(ordered, Len(keep) + 1, Len(ordered))
      refused  == SelectSeq(keep, LAMBDA e : e.peer \in B)
      restored == SelectSeq(keep, LAMBDA e : e.peer \notin B)
      lost     == stale \o dropped \o refused
  IN FlattenSeq([i \in DOMAIN lost |-> EraseCommands(lost[i].peer)])
     \o IF lost = <<>> THEN <<>> ELSE <<[cmd |-> "setIndex", index |-> restored]>>

(* Power loss between two commands or between operations, then restore();   *)
(* a pairing whose link the radio refuses is given up.                      *)
Restart ==
  \E B \in SUBSET Peers :
    LET entries == Entries(flash[Index])
        read == {Index} \cup {PairOf(entries[i].peer) : i \in DOMAIN entries}
    IN /\ cache' = [b \in Blobs |-> IF b \in read THEN flash[b] ELSE Unknown]
       /\ todo' = RestoreCommands(entries, B)
       /\ run' = NoRun
       /\ promised' = [p \in Peers |-> IF p \in B THEN None ELSE promised[p]]
       /\ UNCHANGED <<flash, gone>>

Init ==
  /\ flash = [b \in Blobs |-> None]
  /\ cache = [b \in Blobs |-> Unknown]
  /\ todo = <<>>
  /\ run = NoRun
  /\ promised = [p \in Peers |-> None]
  /\ gone = {}

Next ==
  \/ \E p \in Peers : (\E k \in Lmks : Persist(p, k)) \/ Forget(p)
  \/ PutPair \/ AssignSeq \/ Upsert \/ PutChannel
  \/ ErasePair \/ Unindex \/ EraseChannel \/ SetIndex
  \/ Restart

Spec == Init /\ [][Next]_vars

-----------------------------------------------------------------------------
(* Correctness.                                                             *)

(* Every blob holds what its writers encode: records keys, the index        *)
(* entries with a valid sequence number, the counter a number.              *)
TypeOK ==
  /\ DOMAIN flash = Blobs /\ DOMAIN cache = Blobs
  /\ \A p \in Peers : flash[PairOf(p)] \in Lmks \cup {None} /\ flash[ChanOf(p)] \in {Channel, None}
  /\ flash[Index] \in Contents \cup {None}
  /\ flash[Counter] \in (1 .. MaxSeq) \cup {None}
  /\ \A i \in DOMAIN todo : todo[i].cmd = "setIndex" \/ todo[i] \in Commands
  /\ run \in [lmk : Lmks \cup {None}, seq : 0 .. MaxSeq, ok : BOOLEAN]
  /\ promised \in [Peers -> Lmks \cup {None}]
  /\ gone \subseteq Peers

(* What blob_cache_ says of a blob is what flash holds, whichever writes    *)
(* and erases fail: putBlobIfChanged may skip a write because of it.        *)
CacheCoherent == \A b \in Blobs : cache[b] # Unknown => cache[b] = flash[b]

(* The cache never lies, and what persistPair and erasePair reported holds  *)
(* through failed writes for other peers and power loss at any write.  A    *)
(* pairing reported saved is in flash and in the index until it is removed, *)
(* paired again or refused by the radio at a restart; one reported erased   *)
(* leaves no record and no index entry, so no restart brings the link back. *)
(* The index is in pairing order and the counter is ahead of it, also when  *)
(* power is lost between the two, so the trim of restore() drops the newest *)
(* pairings and no two pairings share a number.                             *)
ReportsHold ==
  /\ CacheCoherent
  /\ \A p \in Peers : promised[p] # None =>
       /\ flash[PairOf(p)] = promised[p]
       /\ Indexed(Entries(flash[Index]), p)
  /\ \A p \in gone : flash[PairOf(p)] = None /\ ~Indexed(Entries(flash[Index]), p)
  /\ LET entries == Entries(flash[Index])
     IN /\ \A i, j \in DOMAIN entries : i < j => entries[i].seq < entries[j].seq
        /\ \A i \in DOMAIN entries : flash[Counter] # None /\ entries[i].seq < flash[Counter]
=============================================================================
