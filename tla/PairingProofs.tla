--------------------------- MODULE PairingProofs ---------------------------
(***************************************************************************)
(* Proofs about the pairing engine, for any number of devices, any queue    *)
(* length and any bounds: type correctness; that every paired device has    *)
(* the record, and every paired slave the key, it claims to have; that a    *)
(* master commits a pairing only after the slave did; and that the flash of *)
(* the two sides honours PairContract.                                      *)
(***************************************************************************)
EXTENDS Pairing, TLAPS

-----------------------------------------------------------------------------
(* What the helpers of the transport return.                                *)

(* addPeer answers with a well-formed table; when it succeeds the hardware  *)
(* holds the entry asked for, and it touches no other destination.          *)
LEMMA AddPeerResult ==
  ASSUME NEW r \in RadioTables, NEW p \in Nodes, NEW e \in Entries,
         NEW a \in AddPeer(r, p, e)
  PROVE  /\ a.ok \in BOOLEAN /\ a.radio \in RadioTables
         /\ a.ok => a.radio[p].hw = e
         /\ \A q \in Nodes \ {p} : a.radio[q] = r[q]
<1> DEFINE done == [ok |-> TRUE, radio |-> [r EXCEPT ![p] = [hw |-> e, cache |-> e]]]
           lost == [ok |-> FALSE, radio |-> [r EXCEPT ![p] = [hw |-> None, cache |-> r[p].cache]]]
<1>1. a = done \/ a = lost
  BY DEF AddPeer
<1>2. /\ [hw |-> e, cache |-> e] \in [hw : Entries, cache : Entries]
      /\ [hw |-> None, cache |-> r[p].cache] \in [hw : Entries, cache : Entries]
  BY DEF RadioTables, Entries
<1>3. done.radio \in RadioTables /\ lost.radio \in RadioTables
  BY <1>2 DEF RadioTables
<1>4. done.radio[p].hw = e /\ \A q \in Nodes \ {p} : done.radio[q] = r[q]
  BY DEF RadioTables
<1>5. \A q \in Nodes \ {p} : lost.radio[q] = r[q]
  BY DEF RadioTables
<1>6. CASE a = done
  <2>1. a.ok = TRUE /\ a.radio = done.radio
    BY <1>6
  <2> HIDE DEF done
  <2> QED BY <2>1, <1>3, <1>4
<1>7. CASE a = lost
  <2>1. a.ok = FALSE /\ a.radio = lost.radio
    BY <1>7
  <2> HIDE DEF lost
  <2> QED BY <2>1, <1>3, <1>5
<1> QED BY <1>1, <1>6, <1>7

(* removePeer empties one entry of a well-formed table.                     *)
LEMMA RemovePeerResult ==
  ASSUME NEW r \in RadioTables, NEW p \in Nodes
  PROVE  /\ RemovePeer(r, p) \in RadioTables
         /\ \A q \in Nodes \ {p} : RemovePeer(r, p)[q] = r[q]
  BY DEF RemovePeer, RadioTables, Entries

(* send leaves a well-formed table, names the key it used, leaves the other *)
(* entries alone and leaves its own alone when the peer is in hardware.     *)
LEMMA SendResult ==
  ASSUME NEW r \in RadioTables, NEW p \in Nodes, NEW t \in Send(r, p)
  PROVE  /\ t.ok \in BOOLEAN /\ t.heard \in BOOLEAN
         /\ t.radio \in RadioTables /\ t.key \in Entries
         /\ r[p].hw # None => t.radio = r
         /\ \A q \in Nodes \ {p} : t.radio[q] = r[q]
<1> DEFINE added == IF r[p].hw # None THEN {[ok |-> TRUE, radio |-> r]}
                    ELSE AddPeer(r, p, Resolved(r, p))
<1>1. Resolved(r, p) \in Entries
  BY DEF Resolved, RadioTables, Entries
<1>2. ASSUME NEW a \in added
      PROVE  /\ a.ok \in BOOLEAN /\ a.radio \in RadioTables
             /\ r[p].hw # None => a.radio = r
             /\ \A q \in Nodes \ {p} : a.radio[q] = r[q]
  <2>1. CASE r[p].hw # None
    <3>1. a = [ok |-> TRUE, radio |-> r]
      BY <2>1
    <3>2. a.ok = TRUE /\ a.radio = r
      BY <3>1
    <3> QED BY <3>2
  <2>2. CASE r[p].hw = None
    <3>1. a \in AddPeer(r, p, Resolved(r, p))
      BY <2>2
    <3> HIDE DEF added
    <3> QED BY <3>1, <2>2, <1>1, AddPeerResult
  <2> QED BY <2>1, <2>2
<1>3. PICK a \in added, o \in {"refused", "lost", "heard"} :
        t = [ok |-> a.ok /\ o # "refused", heard |-> a.ok /\ o = "heard",
             radio |-> a.radio, key |-> a.radio[p].hw]
  BY DEF Send
<1>4. /\ t.radio = a.radio /\ t.key = a.radio[p].hw
      /\ t.ok = (a.ok /\ o # "refused") /\ t.heard = (a.ok /\ o = "heard")
  BY <1>3
<1> QED BY <1>2, <1>4 DEF RadioTables

(* The frames the handlers build are well formed.                           *)
LEMMA FrameResult ==
  ASSUME NEW n \in Nodes, NEW c \in CorrIds, NEW k \in Entries
  PROVE  /\ \A x \in Nonces : n \in Masters =>
              Frame("PairInit", n, c, x, k) \in Frames /\ Frame("PairConfirm", n, c, x, k) \in Frames
         /\ \A x \in Nonces : n \in Slaves => Frame("PairInitAck", n, c, x, k) \in Frames
         /\ n \in Slaves => Frame("Discovery", n, c, NoNonce, k) \in Frames
         /\ \A ty \in {"PairConfirmAck", "PairBusy", "UnpairRequest", "UnpairAck"} :
              Frame(ty, n, c, NoNonce, k) \in Frames
  BY DEF Frame, Frames, FrameTypes

(* A full queue drops its oldest frame, an empty one takes the new one.     *)
LEMMA EnqueueResult ==
  ASSUME NEW S, NEW q \in Seq(S), NEW f \in S
  PROVE  Enqueue(q, f) \in Seq(S)
  BY Bounds DEF Enqueue

(* Sending puts nothing but the frame into a queue.                         *)
LEMMA TransmitResult ==
  ASSUME NEW S, NEW q \in [Nodes -> Seq(S)], NEW t, NEW n, NEW p, NEW f \in S
  PROVE  Transmit(q, t, n, p, f) \in [Nodes -> Seq(S)]
<1>1. p \in Nodes => Enqueue(q[p], f) \in Seq(S)
  BY EnqueueResult
<1> QED BY <1>1 DEF Transmit

(* Handling the frame at the head of a queue shortens the queue.            *)
LEMMA PopResult ==
  ASSUME NEW S, rxq \in [Nodes -> Seq(S)], NEW n \in Nodes, rxq[n] # <<>>
  PROVE  Pop(n) \in [Nodes -> Seq(S)] /\ Head(rxq[n]) \in S
  BY DEF Pop

(* resetPairing leaves a well-formed engine that is not paired.             *)
LEMMA ResetPairingResult ==
  ASSUME NEW e \in Engines
  PROVE  ResetPairing(e) \in Engines /\ ResetPairing(e).st = "Unpaired"
  BY DEF ResetPairing, Engines, LinkStates, PairPhases

-----------------------------------------------------------------------------
(* Type correctness.                                                        *)

EnginesOK == eng \in [Nodes -> Engines] /\ \A n \in Nodes : HandshakeOK(eng[n])
RadiosOK  == radio \in [Nodes -> RadioTables]
QueuesOK  == rxq \in [Nodes -> Seq(Frames)]
RecordsOK == rec \in [Nodes -> [Nodes -> Keys \cup {None}]]
CountsOK  == /\ attempts \in [Masters -> 0 .. MaxAttempts]
             /\ beacons \in [Slaves -> 0 .. MaxBeacons]

LEMMA TypeParts ==
  /\ TypeOK <=> EnginesOK /\ RadiosOK /\ QueuesOK /\ RecordsOK /\ CountsOK /\ saved \subseteq Keys
  /\ TypeOK' <=> (EnginesOK /\ RadiosOK /\ QueuesOK /\ RecordsOK /\ CountsOK /\ saved \subseteq Keys)'
  BY DEF TypeOK, EnginesOK, RadiosOK, QueuesOK, RecordsOK, CountsOK

LEMMA EngineUpdate ==
  ASSUME EnginesOK, NEW n \in Nodes, NEW e \in Engines, HandshakeOK(e),
         eng' = [eng EXCEPT ![n] = e]
  PROVE  EnginesOK'
  BY DEF EnginesOK, HandshakeOK

LEMMA RadioUpdate ==
  ASSUME RadiosOK, NEW n \in Nodes, NEW r \in RadioTables,
         radio' = [radio EXCEPT ![n] = r]
  PROVE  RadiosOK'
  BY DEF RadiosOK

LEMMA FailPairingType ==
  ASSUME EnginesOK, RadiosOK, NEW n \in Nodes, NEW p \in Nodes,
         NEW e \in Engines, NEW r \in RadioTables, FailPairing(n, e, r, p)
  PROVE  EnginesOK' /\ RadiosOK'
<1>1. ResetPairing(e) \in Engines /\ HandshakeOK(ResetPairing(e))
  BY ResetPairingResult DEF HandshakeOK
<1>2. RemovePeer(r, p) \in RadioTables
  BY RemovePeerResult
<1> QED BY <1>1, <1>2, EngineUpdate, RadioUpdate DEF FailPairing

LEMMA InitType == Init => TypeOK
<1> SUFFICES ASSUME Init PROVE TypeOK
  OBVIOUS
<1>1. NewEngine \in Engines /\ HandshakeOK(NewEngine)
  BY DEF NewEngine, Engines, LinkStates, PairPhases, HandshakeOK
<1>2. NoPeers \in RadioTables
  BY DEF NoPeers, RadioTables, Entries
<1> QED BY <1>1, <1>2, Bounds DEF Init, TypeOK

LEMMA RequestPairType ==
  ASSUME TypeOK, NEW m \in Masters, NEW s \in Nodes, NEW c \in CorrIds,
         NEW q \in [Nodes -> Seq(Frames)], RequestPair(m, s, c, q)
  PROVE  TypeOK'
<1> DEFINE x == <<m, attempts[m] + 1>>
           e == [eng[m] EXCEPT !.st = "Pairing", !.phase = "MasterWaitInitAck",
                               !.peer = s, !.corr = c, !.nonce = x]
<1>1. m \in Nodes /\ EnginesOK /\ RadiosOK /\ eng[m] \in Engines /\ radio[m] \in RadioTables
  BY TypeParts DEF Nodes, EnginesOK, RadiosOK
<1>2. x \in Nonces /\ CountsOK'
  <2>1. attempts[m] \in 0 .. MaxAttempts /\ attempts[m] < MaxAttempts
    BY DEF TypeOK, RequestPair
  <2>2. attempts[m] + 1 \in 1 .. MaxAttempts
    BY <2>1, Bounds
  <2>3. attempts' = [attempts EXCEPT ![m] = @ + 1] /\ beacons' = beacons
    BY DEF RequestPair
  <2> QED BY <2>2, <2>3 DEF TypeOK, CountsOK, Nonces
<1>3. e \in Engines /\ HandshakeOK(e)
  BY <1>1, <1>2, Bounds DEF Engines, HandshakeOK, LinkStates, PairPhases
<1>4. RecordsOK' /\ saved' \subseteq Keys
  BY DEF RequestPair, TypeOK, RecordsOK
<1>5. Plain \in Entries
  BY DEF Entries
<1>6. PICK a \in AddPeer(radio[m], s, Plain) :
        \/ ~a.ok /\ FailPairing(m, e, a.radio, s) /\ rxq' = q
        \/ /\ a.ok
           /\ \E t \in Send(a.radio, s) :
                \/ ~t.ok /\ FailPairing(m, e, t.radio, s) /\ rxq' = q
                \/ /\ t.ok
                   /\ eng' = [eng EXCEPT ![m] = e]
                   /\ radio' = [radio EXCEPT ![m] = t.radio]
                   /\ rxq' = Transmit(q, t, m, s, Frame("PairInit", m, c, x, t.key))
  BY DEF RequestPair
<1>7. a.radio \in RadioTables
  BY <1>1, <1>5, AddPeerResult
<1> HIDE DEF e, x
<1>8. CASE FailPairing(m, e, a.radio, s) /\ rxq' = q
  BY <1>8, <1>1, <1>2, <1>3, <1>4, <1>7, FailPairingType, TypeParts DEF QueuesOK
<1>9. ASSUME NEW t \in Send(a.radio, s),
             \/ FailPairing(m, e, t.radio, s) /\ rxq' = q
             \/ /\ eng' = [eng EXCEPT ![m] = e]
                /\ radio' = [radio EXCEPT ![m] = t.radio]
                /\ rxq' = Transmit(q, t, m, s, Frame("PairInit", m, c, x, t.key))
      PROVE  TypeOK'
  <2>1. t.radio \in RadioTables /\ t.key \in Entries
    BY <1>7, SendResult
  <2>2. CASE FailPairing(m, e, t.radio, s) /\ rxq' = q
    BY <2>2, <1>1, <1>2, <1>3, <1>4, <2>1, FailPairingType, TypeParts DEF QueuesOK
  <2>3. CASE /\ eng' = [eng EXCEPT ![m] = e]
             /\ radio' = [radio EXCEPT ![m] = t.radio]
             /\ rxq' = Transmit(q, t, m, s, Frame("PairInit", m, c, x, t.key))
    <3>1. Frame("PairInit", m, c, x, t.key) \in Frames
      BY <1>1, <1>2, <2>1, FrameResult
    <3>2. QueuesOK'
      BY <2>3, <3>1, TransmitResult DEF QueuesOK
    <3> QED BY <2>3, <3>2, <1>1, <1>2, <1>3, <1>4, <2>1, EngineUpdate, RadioUpdate, TypeParts
  <2> QED BY <1>9, <2>2, <2>3
<1> QED BY <1>6, <1>8, <1>9

(* A handler that transmits keeps tables and queues well formed.            *)
LEMMA TransmitType ==
  ASSUME TypeOK, NEW n \in Nodes, NEW p \in Nodes, NEW r \in RadioTables,
         NEW t \in Send(r, p), NEW q \in [Nodes -> Seq(Frames)], NEW f \in Frames,
         radio' = [radio EXCEPT ![n] = t.radio], rxq' = Transmit(q, t, n, p, f)
  PROVE  RadiosOK' /\ QueuesOK'
<1>1. RadiosOK'
  BY SendResult, RadioUpdate, TypeParts
<1>2. QueuesOK'
  BY TransmitResult DEF QueuesOK
<1> QED BY <1>1, <1>2

(* What a handler knows of the frame it takes from its queue.               *)
LEMMA HeadFrame ==
  ASSUME TypeOK, NEW n \in Nodes, rxq[n] # <<>>
  PROVE  /\ Head(rxq[n]) \in Frames /\ Pop(n) \in [Nodes -> Seq(Frames)]
         /\ Head(rxq[n]).src \in Nodes /\ Head(rxq[n]).corr \in CorrIds
<1>1. Head(rxq[n]) \in Frames /\ Pop(n) \in [Nodes -> Seq(Frames)]
  BY PopResult DEF TypeOK
<1> QED BY <1>1 DEF Frames

LEMMA OnDiscoveryType ==
  ASSUME TypeOK, NEW m \in Masters, OnDiscovery(m)
  PROVE  TypeOK'
<1>1. m \in Nodes /\ rxq[m] # <<>>
  BY DEF OnDiscovery, HeadIs, Nodes
<1>2. RequestPair(m, Head(rxq[m]).src, Head(rxq[m]).corr, Pop(m))
  BY DEF OnDiscovery
<1> QED BY <1>1, <1>2, HeadFrame, RequestPairType

LEMMA TickDiscoveryType ==
  ASSUME TypeOK, NEW s \in Slaves, TickDiscovery(s)
  PROVE  TypeOK'
<1> DEFINE f == Frame("Discovery", s, beacons[s] + 1, NoNonce, Plain)
<1>1. beacons[s] + 1 \in CorrIds /\ CountsOK'
  <2>1. beacons[s] \in 0 .. MaxBeacons /\ beacons[s] < MaxBeacons
    BY DEF TypeOK, TickDiscovery
  <2>2. beacons[s] + 1 \in 1 .. MaxBeacons
    BY <2>1, Bounds
  <2>3. beacons' = [beacons EXCEPT ![s] = @ + 1] /\ attempts' = attempts
    BY DEF TickDiscovery
  <2> QED BY <2>2, <2>3, Bounds DEF TypeOK, CountsOK
<1>2. f \in Frames
  BY <1>1, FrameResult DEF Entries, Nodes
<1> HIDE DEF f
<1>3. \A n \in Nodes : rxq[n] \in Seq(Frames) /\ Enqueue(rxq[n], f) \in Seq(Frames)
  BY <1>2, EnqueueResult DEF TypeOK
<1>4. PICK H \in SUBSET Masters :
        rxq' = [n \in Nodes |-> IF n \in H THEN Enqueue(rxq[n], f) ELSE rxq[n]]
  BY DEF TickDiscovery, f
<1>5. QueuesOK'
  BY <1>3, <1>4 DEF QueuesOK
<1> QED BY <1>1, <1>5, TypeParts
        DEF TickDiscovery, EnginesOK, RadiosOK, RecordsOK

LEMMA BusyRejectType ==
  ASSUME TypeOK, NEW s \in Slaves, NEW f \in Frames, rxq[s] # <<>>, BusyReject(s, f)
  PROVE  EnginesOK' /\ RadiosOK' /\ QueuesOK'
<1>1. s \in Nodes /\ f.src \in Nodes /\ f.corr \in CorrIds /\ Plain \in Entries
  BY DEF Nodes, Frames, Entries
<1>2. radio[s] \in RadioTables /\ Pop(s) \in [Nodes -> Seq(Frames)]
  BY <1>1, HeadFrame DEF TypeOK
<1>3. PICK a \in AddPeer(radio[s], f.src, Plain) : \E t \in Send(a.radio, f.src) :
        /\ radio' = [radio EXCEPT ![s] = t.radio]
        /\ rxq' = Transmit(Pop(s), t, s, f.src, Frame("PairBusy", s, f.corr, NoNonce, t.key))
  BY DEF BusyReject
<1>4. a.radio \in RadioTables
  BY <1>1, <1>2, AddPeerResult
<1>5. PICK t \in Send(a.radio, f.src) :
        /\ radio' = [radio EXCEPT ![s] = t.radio]
        /\ rxq' = Transmit(Pop(s), t, s, f.src, Frame("PairBusy", s, f.corr, NoNonce, t.key))
  BY <1>3
<1>6. Frame("PairBusy", s, f.corr, NoNonce, t.key) \in Frames
  BY <1>1, <1>4, SendResult, FrameResult
<1>7. RadiosOK' /\ QueuesOK'
  BY <1>1, <1>2, <1>4, <1>5, <1>6, TransmitType
<1> QED BY <1>7, TypeParts DEF BusyReject, EnginesOK

LEMMA PrepareType ==
  ASSUME TypeOK, NEW s \in Slaves, NEW f \in Frames, rxq[s] # <<>>,
         f.src \in Masters, f.nonce \in Nonces, Prepare(s, f)
  PROVE  EnginesOK' /\ RadiosOK' /\ QueuesOK'
<1> DEFINE e == [eng[s] EXCEPT !.st = "Pairing", !.phase = "SlaveWaitConfirm",
                               !.peer = f.src, !.corr = f.corr, !.nonce = f.nonce]
           k == DeriveLmk(f.src, s, f.nonce)
           e2 == [e EXCEPT !.lmk = k]
           f2(t) == Frame("PairInitAck", s, f.corr, f.nonce, t.key)
<1>1. s \in Nodes /\ f.src \in Nodes /\ f.corr \in CorrIds /\ Plain \in Entries
  BY DEF Nodes, Frames, Entries
<1>2. /\ eng[s] \in Engines /\ radio[s] \in RadioTables /\ Pop(s) \in [Nodes -> Seq(Frames)]
      /\ EnginesOK /\ RadiosOK
  BY <1>1, HeadFrame, TypeParts DEF TypeOK
<1>3. k \in Keys /\ k \in Entries
  BY DEF DeriveLmk, Keys, Entries
<1>4. e \in Engines /\ HandshakeOK(e)
  BY <1>1, <1>2, Bounds DEF Engines, HandshakeOK, LinkStates, PairPhases
<1>5. e2 \in Engines /\ HandshakeOK(e2)
  BY <1>1, <1>2, <1>3, Bounds DEF Engines, HandshakeOK, LinkStates, PairPhases
<1>6. PICK a \in AddPeer(radio[s], f.src, Plain) :
       \/ ~a.ok /\ FailPairing(s, e, a.radio, f.src) /\ rxq' = Pop(s)
       \/ /\ a.ok
          /\ \E t \in Send(a.radio, f.src) :
               \/ ~t.ok /\ FailPairing(s, e, t.radio, f.src) /\ rxq' = Pop(s)
               \/ /\ t.ok
                  /\ rxq' = Transmit(Pop(s), t, s, f.src, f2(t))
                  /\ \E b \in AddPeer(RemovePeer(t.radio, f.src), f.src, k) :
                       \/ ~b.ok /\ FailPairing(s, e2, b.radio, f.src)
                       \/ /\ b.ok
                          /\ eng' = [eng EXCEPT ![s] = e2]
                          /\ radio' = [radio EXCEPT ![s] = b.radio]
  BY DEF Prepare
<1> HIDE DEF e, e2, k
<1>7. a.radio \in RadioTables
  BY <1>1, <1>2, AddPeerResult
<1>8. CASE FailPairing(s, e, a.radio, f.src) /\ rxq' = Pop(s)
  BY <1>8, <1>1, <1>2, <1>4, <1>7, FailPairingType DEF QueuesOK
<1>9. ASSUME NEW t \in Send(a.radio, f.src), FailPairing(s, e, t.radio, f.src), rxq' = Pop(s)
      PROVE  EnginesOK' /\ RadiosOK' /\ QueuesOK'
  <2>1. t.radio \in RadioTables
    BY <1>1, <1>7, SendResult
  <2> QED BY <1>9, <2>1, <1>1, <1>2, <1>4, FailPairingType DEF QueuesOK
<1>10. ASSUME NEW t \in Send(a.radio, f.src),
              NEW b \in AddPeer(RemovePeer(t.radio, f.src), f.src, k),
              rxq' = Transmit(Pop(s), t, s, f.src, f2(t)),
              \/ FailPairing(s, e2, b.radio, f.src)
              \/ eng' = [eng EXCEPT ![s] = e2] /\ radio' = [radio EXCEPT ![s] = b.radio]
       PROVE  EnginesOK' /\ RadiosOK' /\ QueuesOK'
  <2>1. t.radio \in RadioTables /\ t.key \in Entries
    BY <1>1, <1>7, SendResult
  <2>2. b.radio \in RadioTables
    BY <2>1, <1>1, <1>3, RemovePeerResult, AddPeerResult
  <2>3. f2(t) \in Frames
    BY <2>1, <1>1, FrameResult
  <2>4. QueuesOK'
    BY <1>10, <2>3, <1>2, TransmitResult DEF QueuesOK
  <2>5. EnginesOK' /\ RadiosOK'
    BY <1>10, <2>2, <1>1, <1>2, <1>5, FailPairingType, EngineUpdate, RadioUpdate
  <2> QED BY <2>4, <2>5
<1> QED BY <1>6, <1>8, <1>9, <1>10

LEMMA OnPairInitType ==
  ASSUME TypeOK, NEW s \in Slaves, OnPairInit(s)
  PROVE  TypeOK'
<1> DEFINE f == Head(rxq[s])
<1>1. s \in Nodes /\ rxq[s] # <<>> /\ f.type = "PairInit"
  BY DEF OnPairInit, HeadIs, Nodes
<1>2. f \in Frames
  BY <1>1, HeadFrame
<1>3. f.src \in Masters /\ f.nonce \in Nonces
  BY <1>1, <1>2 DEF Frames
<1>4. BusyReject(s, f) \/ Prepare(s, f)
  BY DEF OnPairInit
<1> HIDE DEF f
<1>5. EnginesOK' /\ RadiosOK' /\ QueuesOK'
  BY <1>1, <1>2, <1>3, <1>4, BusyRejectType, PrepareType
<1> QED BY <1>5, TypeParts DEF OnPairInit, RecordsOK, CountsOK

LEMMA OnPairInitAckType ==
  ASSUME TypeOK, NEW m \in Masters, OnPairInitAck(m)
  PROVE  TypeOK'
<1> DEFINE f == Head(rxq[m])
           k == DeriveLmk(m, f.src, eng[m].nonce)
           e == [eng[m] EXCEPT !.lmk = k]
           g == [e EXCEPT !.phase = "MasterSecureGuard"]
<1>1. m \in Nodes /\ rxq[m] # <<>> /\ f.type = "PairInitAck"
  BY DEF OnPairInitAck, HeadIs, Nodes
<1>2. f \in Frames /\ Pop(m) \in [Nodes -> Seq(Frames)] /\ f.src \in Nodes
  BY <1>1, HeadFrame
<1>3. f.src \in Slaves
  BY <1>1, <1>2 DEF Frames
<1>4. /\ eng[m] \in Engines /\ HandshakeOK(eng[m]) /\ radio[m] \in RadioTables
      /\ EnginesOK /\ RadiosOK
  BY <1>1, TypeParts DEF TypeOK
<1>5. eng[m].st = "Pairing" /\ eng[m].nonce \in Nonces
  BY <1>4 DEF OnPairInitAck, AwaitsInitAck, HandshakeOK
<1>6. k \in Keys /\ k \in Entries
  BY <1>3, <1>5 DEF DeriveLmk, Keys, Entries
<1>7. e \in Engines /\ HandshakeOK(e) /\ g \in Engines /\ HandshakeOK(g)
  BY <1>4, <1>5, <1>6 DEF Engines, HandshakeOK, LinkStates, PairPhases
<1>8. \/ FailPairing(m, eng[m], radio[m], f.src)
      \/ \E a \in AddPeer(RemovePeer(radio[m], f.src), f.src, k) :
           \/ FailPairing(m, e, a.radio, f.src)
           \/ eng' = [eng EXCEPT ![m] = g] /\ radio' = [radio EXCEPT ![m] = a.radio]
  BY DEF OnPairInitAck
<1>9. rxq' = Pop(m) /\ UNCHANGED <<rec, attempts, beacons, saved>>
  BY DEF OnPairInitAck
<1> HIDE DEF f, k, e, g
<1>10. \A a \in AddPeer(RemovePeer(radio[m], f.src), f.src, k) : a.radio \in RadioTables
  BY <1>2, <1>4, <1>6, RemovePeerResult, AddPeerResult
<1>11. EnginesOK' /\ RadiosOK'
  BY <1>1, <1>2, <1>4, <1>7, <1>8, <1>10, FailPairingType, EngineUpdate, RadioUpdate
<1> QED BY <1>2, <1>9, <1>11, TypeParts DEF QueuesOK, RecordsOK, CountsOK

LEMMA TickSecureGuardType ==
  ASSUME TypeOK, NEW m \in Masters, TickSecureGuard(m)
  PROVE  TypeOK'
<1> DEFINE p == eng[m].peer
           e == [eng[m] EXCEPT !.phase = "MasterWaitConfirmAck"]
<1>1. /\ m \in Nodes /\ eng[m] \in Engines /\ HandshakeOK(eng[m]) /\ radio[m] \in RadioTables
      /\ EnginesOK /\ RadiosOK /\ QueuesOK /\ rxq \in [Nodes -> Seq(Frames)]
  BY TypeParts DEF TypeOK, Nodes
<1>2. /\ p \in Nodes /\ eng[m].corr \in CorrIds /\ eng[m].nonce \in Nonces
      /\ e \in Engines /\ HandshakeOK(e)
  BY <1>1 DEF TickSecureGuard, HandshakeOK, Engines, PairPhases
<1>3. PICK t \in Send(radio[m], p) :
        \/ FailPairing(m, eng[m], t.radio, p) /\ UNCHANGED rxq
        \/ /\ eng' = [eng EXCEPT ![m] = e]
           /\ radio' = [radio EXCEPT ![m] = t.radio]
           /\ rxq' = Transmit(rxq, t, m, p,
                              Frame("PairConfirm", m, eng[m].corr, eng[m].nonce, t.key))
  BY DEF TickSecureGuard
<1>4. UNCHANGED <<rec, attempts, beacons, saved>>
  BY DEF TickSecureGuard
<1> HIDE DEF p, e
<1>5. t.radio \in RadioTables /\ t.key \in Entries
  BY <1>1, <1>2, SendResult
<1>6. CASE FailPairing(m, eng[m], t.radio, p) /\ UNCHANGED rxq
  BY <1>6, <1>1, <1>2, <1>4, <1>5, FailPairingType, TypeParts DEF QueuesOK, RecordsOK, CountsOK
<1>7. CASE /\ eng' = [eng EXCEPT ![m] = e]
           /\ radio' = [radio EXCEPT ![m] = t.radio]
           /\ rxq' = Transmit(rxq, t, m, p,
                              Frame("PairConfirm", m, eng[m].corr, eng[m].nonce, t.key))
  <2>1. Frame("PairConfirm", m, eng[m].corr, eng[m].nonce, t.key) \in Frames
    BY <1>1, <1>2, <1>5, FrameResult
  <2>2. RadiosOK' /\ QueuesOK'
    BY <2>1, <1>1, <1>2, <1>7, TransmitType
  <2>3. EnginesOK'
    BY <1>1, <1>2, <1>7, EngineUpdate
  <2> QED BY <2>2, <2>3, <1>4, TypeParts DEF RecordsOK, CountsOK
<1> QED BY <1>3, <1>6, <1>7

(* savePair and erasePair keep the records well formed.                     *)
LEMMA RecordResult ==
  ASSUME RecordsOK, NEW n \in Nodes
  PROVE  /\ \A p \in Nodes, k \in Keys, w \in PersistOutcomes :
              SavePair(n, p, k, w) \in [Nodes -> [Nodes -> Keys \cup {None}]]
         /\ \A P, R : R \in ErasePairs(n, P) => R \in [Nodes -> [Nodes -> Keys \cup {None}]]
<1>1. ASSUME NEW p \in Nodes, NEW k \in Keys, NEW w \in PersistOutcomes
      PROVE  SavePair(n, p, k, w) \in [Nodes -> [Nodes -> Keys \cup {None}]]
  BY DEF SavePair, RecordsOK
<1>2. ASSUME NEW P, NEW R, R \in ErasePairs(n, P)
      PROVE  R \in [Nodes -> [Nodes -> Keys \cup {None}]]
  <2>1. PICK D : R = [rec EXCEPT ![n] = [p \in Nodes |-> IF p \in D THEN None ELSE rec[n][p]]]
    BY <1>2 DEF ErasePairs
  <2> QED BY <2>1 DEF RecordsOK
<1> QED BY <1>1, <1>2

LEMMA OnPairConfirmType ==
  ASSUME TypeOK, NEW s \in Slaves, OnPairConfirm(s)
  PROVE  TypeOK'
<1> DEFINE f == Head(rxq[s])
           k == DeriveLmk(f.src, s, eng[s].nonce)
           e == [eng[s] EXCEPT !.lmk = k]
           d == [e EXCEPT !.st = "Secured", !.phase = "Idle"]
           ack(t) == Frame("PairConfirmAck", s, f.corr, NoNonce, t.key)
<1>1. s \in Nodes /\ rxq[s] # <<>> /\ f.type = "PairConfirm"
  BY DEF OnPairConfirm, HeadIs, Nodes
<1>2. f \in Frames /\ Pop(s) \in [Nodes -> Seq(Frames)] /\ f.src \in Nodes /\ f.corr \in CorrIds
  BY <1>1, HeadFrame
<1>3. f.src \in Masters
  BY <1>1, <1>2 DEF Frames
<1>4. /\ eng[s] \in Engines /\ HandshakeOK(eng[s]) /\ radio[s] \in RadioTables
      /\ EnginesOK /\ RadiosOK /\ RecordsOK /\ CountsOK /\ saved \subseteq Keys
  BY <1>1, TypeParts DEF TypeOK
<1>5. eng[s].st = "Pairing" /\ eng[s].nonce \in Nonces /\ eng[s].peer \in Nodes
  BY <1>4 DEF OnPairConfirm, AwaitsConfirm, HandshakeOK
<1>6. k \in Keys /\ k \in Entries
  BY <1>3, <1>5 DEF DeriveLmk, Keys, Entries
<1>7. e \in Engines /\ HandshakeOK(e) /\ d \in Engines /\ HandshakeOK(d)
  BY <1>4, <1>5, <1>6 DEF Engines, HandshakeOK, LinkStates, PairPhases
<1>8. CountsOK'
  BY <1>4 DEF OnPairConfirm, CountsOK
<1>9. \/ FailPairing(s, eng[s], radio[s], f.src) /\ rxq' = Pop(s) /\ UNCHANGED <<rec, saved>>
      \/ \E a \in AddPeer(RemovePeer(radio[s], f.src), f.src, k) :
           \/ FailPairing(s, e, a.radio, f.src) /\ rxq' = Pop(s) /\ UNCHANGED <<rec, saved>>
           \/ \E w \in PersistOutcomes :
                /\ rec' = SavePair(s, eng[s].peer, k, w)
                /\ saved' = IF w.pair THEN saved \cup {k} ELSE saved
                /\ \/ FailPairing(s, e, a.radio, f.src) /\ rxq' = Pop(s)
                   \/ /\ eng' = [eng EXCEPT ![s] = d]
                      /\ \E t \in Send(a.radio, f.src) :
                           /\ radio' = [radio EXCEPT ![s] = t.radio]
                           /\ rxq' = Transmit(Pop(s), t, s, f.src, ack(t))
  BY DEF OnPairConfirm
<1> HIDE DEF f, k, e, d
<1>10. CASE FailPairing(s, eng[s], radio[s], f.src) /\ rxq' = Pop(s) /\ UNCHANGED <<rec, saved>>
  BY <1>10, <1>1, <1>2, <1>4, <1>8, FailPairingType, TypeParts DEF QueuesOK, RecordsOK
<1>11. ASSUME NEW a \in AddPeer(RemovePeer(radio[s], f.src), f.src, k)
       PROVE  a.radio \in RadioTables
  BY <1>2, <1>4, <1>6, RemovePeerResult, AddPeerResult
<1>12. ASSUME NEW a \in AddPeer(RemovePeer(radio[s], f.src), f.src, k),
              FailPairing(s, e, a.radio, f.src), rxq' = Pop(s), UNCHANGED <<rec, saved>>
       PROVE  TypeOK'
  BY <1>12, <1>11, <1>1, <1>2, <1>4, <1>7, <1>8, FailPairingType, TypeParts DEF QueuesOK, RecordsOK
<1>13. ASSUME NEW a \in AddPeer(RemovePeer(radio[s], f.src), f.src, k),
              NEW w \in PersistOutcomes, rec' = SavePair(s, eng[s].peer, k, w),
              saved' = IF w.pair THEN saved \cup {k} ELSE saved,
              \/ FailPairing(s, e, a.radio, f.src) /\ rxq' = Pop(s)
              \/ /\ eng' = [eng EXCEPT ![s] = d]
                 /\ \E t \in Send(a.radio, f.src) :
                      /\ radio' = [radio EXCEPT ![s] = t.radio]
                      /\ rxq' = Transmit(Pop(s), t, s, f.src, ack(t))
       PROVE  TypeOK'
  <2>1. RecordsOK' /\ saved' \subseteq Keys
    BY <1>13, <1>1, <1>4, <1>5, <1>6, RecordResult DEF RecordsOK
  <2>2. a.radio \in RadioTables
    BY <1>11
  <2>3. CASE FailPairing(s, e, a.radio, f.src) /\ rxq' = Pop(s)
    BY <2>3, <2>1, <2>2, <1>1, <1>2, <1>4, <1>7, <1>8, FailPairingType, TypeParts DEF QueuesOK
  <2>4. ASSUME NEW t \in Send(a.radio, f.src), eng' = [eng EXCEPT ![s] = d],
               radio' = [radio EXCEPT ![s] = t.radio],
               rxq' = Transmit(Pop(s), t, s, f.src, ack(t))
        PROVE  TypeOK'
    <3>1. ack(t) \in Frames
      BY <2>2, <1>1, <1>2, SendResult, FrameResult
    <3>2. RadiosOK' /\ QueuesOK'
      BY <3>1, <2>2, <2>4, <1>1, <1>2, TransmitType
    <3>3. EnginesOK'
      BY <2>4, <1>1, <1>4, <1>7, EngineUpdate
    <3> QED BY <3>2, <3>3, <2>1, <1>8, TypeParts
  <2> QED BY <1>13, <2>3, <2>4
<1> QED BY <1>9, <1>10, <1>12, <1>13

LEMMA OnPairConfirmAckType ==
  ASSUME TypeOK, NEW m \in Masters, OnPairConfirmAck(m)
  PROVE  TypeOK'
<1> DEFINE f == Head(rxq[m])
           e == [eng[m] EXCEPT !.st = "Secured", !.phase = "Idle", !.nonce = NoNonce]
<1>1. m \in Nodes /\ rxq[m] # <<>>
  BY DEF OnPairConfirmAck, HeadIs, Nodes
<1>2. Pop(m) \in [Nodes -> Seq(Frames)] /\ f.src \in Nodes
  BY <1>1, HeadFrame
<1>3. /\ eng[m] \in Engines /\ HandshakeOK(eng[m]) /\ radio[m] \in RadioTables
      /\ EnginesOK /\ RadiosOK /\ RecordsOK
  BY <1>1, TypeParts DEF TypeOK
<1>4. eng[m].peer \in Nodes /\ eng[m].lmk \in Keys
  BY <1>3 DEF OnPairConfirmAck, AwaitsConfirmAck, HandshakeOK
<1>5. e \in Engines /\ HandshakeOK(e)
  BY <1>3 DEF Engines, HandshakeOK, LinkStates, PairPhases
<1>6. PICK w \in PersistOutcomes :
        /\ rec' = SavePair(m, eng[m].peer, eng[m].lmk, w)
        /\ \/ FailPairing(m, e, radio[m], f.src)
           \/ eng' = [eng EXCEPT ![m] = e] /\ UNCHANGED radio
  BY DEF OnPairConfirmAck
<1>7. rxq' = Pop(m) /\ UNCHANGED <<attempts, beacons, saved>>
  BY DEF OnPairConfirmAck
<1> HIDE DEF f, e
<1>8. RecordsOK'
  BY <1>1, <1>3, <1>4, <1>6, RecordResult DEF RecordsOK
<1>9. EnginesOK' /\ RadiosOK'
  <2>1. CASE FailPairing(m, e, radio[m], f.src)
    BY <2>1, <1>1, <1>2, <1>3, <1>5, FailPairingType
  <2>2. CASE eng' = [eng EXCEPT ![m] = e] /\ UNCHANGED radio
    BY <2>2, <1>1, <1>3, <1>5, EngineUpdate DEF RadiosOK
  <2> QED BY <1>6, <2>1, <2>2
<1> QED BY <1>2, <1>7, <1>8, <1>9, TypeParts DEF QueuesOK, CountsOK

LEMMA OnPairBusyType ==
  ASSUME TypeOK, NEW m \in Masters, OnPairBusy(m)
  PROVE  TypeOK'
<1>1. m \in Nodes /\ rxq[m] # <<>>
  BY DEF OnPairBusy, HeadIs, Nodes
<1>2. Pop(m) \in [Nodes -> Seq(Frames)] /\ Head(rxq[m]).src \in Nodes
  BY <1>1, HeadFrame
<1>3. eng[m] \in Engines /\ radio[m] \in RadioTables /\ EnginesOK /\ RadiosOK
  BY <1>1, TypeParts DEF TypeOK
<1>4. EnginesOK' /\ RadiosOK'
  BY <1>1, <1>2, <1>3, FailPairingType DEF OnPairBusy
<1> QED BY <1>2, <1>4, TypeParts DEF OnPairBusy, QueuesOK, RecordsOK, CountsOK

LEMMA TickPairTimeoutType ==
  ASSUME TypeOK, NEW n \in Nodes, TickPairTimeout(n)
  PROVE  TypeOK'
<1>1. /\ eng[n] \in Engines /\ HandshakeOK(eng[n]) /\ radio[n] \in RadioTables
      /\ EnginesOK /\ RadiosOK
  BY TypeParts DEF TypeOK
<1>2. eng[n].peer \in Nodes
  BY <1>1 DEF TickPairTimeout, HandshakeOK
<1>3. EnginesOK' /\ RadiosOK'
  BY <1>1, <1>2, FailPairingType DEF TickPairTimeout
<1> QED BY <1>3, TypeParts DEF TickPairTimeout, QueuesOK, RecordsOK, CountsOK

LEMMA UnpairRequestType ==
  ASSUME TypeOK, NEW m \in Masters, NEW s \in Slaves, NEW c \in CorrIds, UnpairRequest(m, s, c)
  PROVE  TypeOK'
<1>1. /\ m \in Nodes /\ s \in Nodes /\ eng[m] \in Engines /\ radio[m] \in RadioTables
      /\ EnginesOK /\ rxq \in [Nodes -> Seq(Frames)]
  BY TypeParts DEF TypeOK, Nodes
<1>2. PICK t \in Send(radio[m], s) :
        /\ radio' = [radio EXCEPT ![m] = t.radio]
        /\ eng' = [eng EXCEPT ![m] = [@ EXCEPT !.peer = s, !.unpairPending = t.ok,
                                               !.unpairCorr = IF t.ok THEN c ELSE 0]]
        /\ rxq' = Transmit(rxq, t, m, s, Frame("UnpairRequest", m, c, NoNonce, t.key))
  BY DEF UnpairRequest
<1> DEFINE e == [eng[m] EXCEPT !.peer = s, !.unpairPending = t.ok,
                               !.unpairCorr = IF t.ok THEN c ELSE 0]
<1>3. t.ok \in BOOLEAN /\ t.key \in Entries
  BY <1>1, SendResult
<1>4. Frame("UnpairRequest", m, c, NoNonce, t.key) \in Frames
  BY <1>1, <1>3, FrameResult
<1>5. RadiosOK' /\ QueuesOK'
  BY <1>1, <1>2, <1>4, TransmitType
<1>6. e \in Engines /\ HandshakeOK(e)
  <2>1. (IF t.ok THEN c ELSE 0) \in Nat
    BY Bounds
  <2>2. e.st = "Secured"
    BY <1>1 DEF UnpairRequest, Engines
  <2> QED BY <1>1, <1>3, <2>1, <2>2 DEF Engines, HandshakeOK
<1>7. EnginesOK'
  BY <1>1, <1>2, <1>6, EngineUpdate
<1> QED BY <1>5, <1>7, TypeParts DEF UnpairRequest, RecordsOK, CountsOK

LEMMA OnUnpairRequestType ==
  ASSUME TypeOK, NEW n \in Nodes, OnUnpairRequest(n)
  PROVE  TypeOK'
<1> DEFINE f == Head(rxq[n])
           e == [eng[n] EXCEPT !.deferredPeer = f.src]
<1>1. rxq[n] # <<>> /\ eng[n].st = "Secured"
  BY DEF OnUnpairRequest, HeadIs
<1>2. Pop(n) \in [Nodes -> Seq(Frames)] /\ f.src \in Nodes /\ f.corr \in CorrIds
  BY <1>1, HeadFrame
<1>3. eng[n] \in Engines /\ radio[n] \in RadioTables /\ EnginesOK
  BY TypeParts DEF TypeOK
<1>4. PICK t \in Send(radio[n], f.src) :
        /\ radio' = [radio EXCEPT ![n] = t.radio]
        /\ eng' = IF t.ok THEN [eng EXCEPT ![n].deferredPeer = f.src] ELSE eng
        /\ rxq' = Transmit(Pop(n), t, n, f.src, Frame("UnpairAck", n, f.corr, NoNonce, t.key))
  BY DEF OnUnpairRequest
<1>5. Frame("UnpairAck", n, f.corr, NoNonce, t.key) \in Frames
  BY <1>2, <1>3, SendResult, FrameResult
<1>6. RadiosOK' /\ QueuesOK'
  BY <1>2, <1>3, <1>4, <1>5, TransmitType
<1>7. e \in Engines /\ HandshakeOK(e)
  BY <1>1, <1>2, <1>3 DEF Engines, HandshakeOK
<1>8. EnginesOK'
  <2>1. CASE eng' = eng
    BY <2>1, <1>3 DEF EnginesOK
  <2>2. CASE eng' = [eng EXCEPT ![n] = e]
    BY <2>2, <1>3, <1>7, EngineUpdate
  <2> QED BY <1>4, <2>1, <2>2
<1> QED BY <1>6, <1>8, TypeParts DEF OnUnpairRequest, RecordsOK, CountsOK

(* Evicting a peer and erasing its record keep the state well formed.       *)
LEMMA ForgetType ==
  ASSUME TypeOK, NEW n \in Nodes, NEW p \in Nodes, rec' \in ErasePairs(n, {p}),
         radio' = [radio EXCEPT ![n] = RemovePeer(@, p)],
         eng' = eng \/ eng' = [eng EXCEPT ![n] = ResetPairing(@)]
  PROVE  EnginesOK' /\ RadiosOK' /\ RecordsOK'
<1>1. eng[n] \in Engines /\ radio[n] \in RadioTables /\ EnginesOK /\ RadiosOK /\ RecordsOK
  BY TypeParts DEF TypeOK
<1>2. RadiosOK'
  BY <1>1, RemovePeerResult, RadioUpdate
<1>3. RecordsOK'
  BY <1>1, RecordResult DEF RecordsOK
<1>4. ResetPairing(eng[n]) \in Engines /\ HandshakeOK(ResetPairing(eng[n]))
  BY <1>1, ResetPairingResult DEF HandshakeOK
<1>5. EnginesOK'
  <2>1. CASE eng' = eng
    BY <2>1, <1>1 DEF EnginesOK
  <2>2. CASE eng' = [eng EXCEPT ![n] = ResetPairing(@)]
    BY <2>2, <1>1, <1>4, EngineUpdate
  <2> QED BY <2>1, <2>2
<1> QED BY <1>2, <1>3, <1>5

LEMMA TickDeferredCleanupType ==
  ASSUME TypeOK, NEW n \in Nodes, TickDeferredCleanup(n)
  PROVE  TypeOK'
<1>1. eng[n].deferredPeer \in Nodes
  BY DEF TypeOK, Engines, TickDeferredCleanup
<1>2. EnginesOK' /\ RadiosOK' /\ RecordsOK'
  BY <1>1, ForgetType DEF TickDeferredCleanup
<1> QED BY <1>2, TypeParts DEF TickDeferredCleanup, QueuesOK, CountsOK

LEMMA OnUnpairAckType ==
  ASSUME TypeOK, NEW n \in Nodes, OnUnpairAck(n)
  PROVE  TypeOK'
<1>1. rxq[n] # <<>>
  BY DEF OnUnpairAck, HeadIs
<1>2. Pop(n) \in [Nodes -> Seq(Frames)] /\ Head(rxq[n]).src \in Nodes
  BY <1>1, HeadFrame
<1>3. EnginesOK' /\ RadiosOK' /\ RecordsOK'
  BY <1>2, ForgetType DEF OnUnpairAck
<1> QED BY <1>2, <1>3, TypeParts DEF OnUnpairAck, QueuesOK, CountsOK

LEMMA TickUnpairTimeoutType ==
  ASSUME TypeOK, NEW n \in Nodes, TickUnpairTimeout(n)
  PROVE  TypeOK'
<1> DEFINE e == [eng[n] EXCEPT !.unpairPending = FALSE]
<1>1. EnginesOK /\ eng[n] \in Engines /\ HandshakeOK(eng[n])
  BY TypeParts DEF TypeOK
<1>2. e \in Engines /\ HandshakeOK(e)
  BY <1>1 DEF Engines, HandshakeOK
<1>3. EnginesOK'
  BY <1>1, <1>2, EngineUpdate DEF TickUnpairTimeout
<1> QED BY <1>3, TypeParts DEF TickUnpairTimeout, RadiosOK, QueuesOK, RecordsOK, CountsOK

LEMMA RemovePeerRequestType ==
  ASSUME TypeOK, NEW n \in Nodes, NEW p \in Nodes, RemovePeerRequest(n, p)
  PROVE  TypeOK'
<1>1. eng' = eng \/ eng' = [eng EXCEPT ![n] = ResetPairing(@)]
  BY DEF RemovePeerRequest
<1>2. EnginesOK' /\ RadiosOK' /\ RecordsOK'
  BY <1>1, ForgetType DEF RemovePeerRequest
<1> QED BY <1>2, TypeParts DEF RemovePeerRequest, QueuesOK, CountsOK

LEMMA RestoreType ==
  ASSUME TypeOK, NEW n \in Nodes, NEW e \in Engines, HandshakeOK(e),
         NEW K \in SUBSET PersistedPeers(n), Restore(n, e, K)
  PROVE  EnginesOK' /\ RadiosOK' /\ RecordsOK'
<1>1. EnginesOK /\ RadiosOK /\ RecordsOK
  BY TypeParts
<1>2. \A p \in K : p \in Nodes /\ rec[n][p] \in Keys
  BY <1>1 DEF PersistedPeers, RecordsOK
<1> DEFINE r == [p \in Nodes |-> IF p \in K THEN [hw |-> rec[n][p], cache |-> rec[n][p]]
                                 ELSE [hw |-> None, cache |-> None]]
           g(p) == [e EXCEPT !.st = "Secured", !.phase = "Idle", !.peer = p,
                             !.lmk = rec[n][p], !.corr = 0, !.nonce = NoNonce]
<1>3. r \in RadioTables
  BY <1>2 DEF RadioTables, Entries
<1>4. radio' = [radio EXCEPT ![n] = r] /\ rec' \in ErasePairs(n, PersistedPeers(n) \ K)
  BY DEF Restore
<1>5. RadiosOK' /\ RecordsOK'
  <2> HIDE DEF r
  <2> QED BY <1>1, <1>3, <1>4, RadioUpdate, RecordResult DEF RecordsOK
<1>6. ASSUME NEW p \in K
      PROVE  g(p) \in Engines /\ HandshakeOK(g(p))
  BY <1>2 DEF Engines, HandshakeOK, LinkStates, PairPhases
<1>7. EnginesOK'
  <2>1. CASE eng' = [eng EXCEPT ![n] = e]
    BY <2>1, <1>1, EngineUpdate
  <2>2. ASSUME NEW p \in K, eng' = [eng EXCEPT ![n] = g(p)]
        PROVE  EnginesOK'
    <3>1. g(p) \in Engines /\ HandshakeOK(g(p))
      BY <1>6
    <3> HIDE DEF g
    <3> QED BY <3>1, <2>2, <1>1, EngineUpdate
  <2> QED BY <2>1, <2>2 DEF Restore
<1> QED BY <1>5, <1>7

LEMMA RebootType ==
  ASSUME TypeOK, NEW n \in Nodes, Reboot(n)
  PROVE  TypeOK'
<1>1. NewEngine \in Engines /\ HandshakeOK(NewEngine)
  BY DEF NewEngine, Engines, LinkStates, PairPhases, HandshakeOK
<1>2. PICK K \in SUBSET PersistedPeers(n) : Restore(n, NewEngine, K)
  BY DEF Reboot
<1>3. EnginesOK' /\ RadiosOK' /\ RecordsOK'
  BY <1>1, <1>2, RestoreType
<1>4. QueuesOK'
  BY DEF Reboot, TypeOK, QueuesOK
<1>5. CountsOK'
  BY Bounds DEF Reboot, TypeOK, CountsOK
<1> QED BY <1>3, <1>4, <1>5, TypeParts DEF Reboot

LEMMA HardReinitType ==
  ASSUME TypeOK, NEW n \in Nodes, HardReinit(n)
  PROVE  TypeOK'
<1>1. eng[n] \in Engines /\ HandshakeOK(eng[n])
  BY DEF TypeOK
<1>2. PICK K \in SUBSET PersistedPeers(n) : Restore(n, eng[n], K)
  BY DEF HardReinit
<1>3. EnginesOK' /\ RadiosOK' /\ RecordsOK'
  BY <1>1, <1>2, RestoreType
<1> QED BY <1>3, TypeParts DEF HardReinit, QueuesOK, CountsOK

LEMMA IgnoreFrameType ==
  ASSUME TypeOK, NEW n \in Nodes, IgnoreFrame(n)
  PROVE  TypeOK'
<1>1. Pop(n) \in [Nodes -> Seq(Frames)]
  BY HeadFrame DEF IgnoreFrame
<1> QED BY <1>1, TypeParts DEF IgnoreFrame, EnginesOK, RadiosOK, QueuesOK, RecordsOK, CountsOK

LEMMA NextType == TypeOK /\ [Next]_vars => TypeOK'
<1> SUFFICES ASSUME TypeOK, [Next]_vars PROVE TypeOK'
  OBVIOUS
<1>1. CASE UNCHANGED vars
  BY <1>1 DEF vars, TypeOK
<1>2. ASSUME NEW m \in Masters, NEW s \in Slaves, NEW c \in CorrIds, PairRequest(m, s, c)
      PROVE  TypeOK'
  BY <1>2, RequestPairType DEF PairRequest, TypeOK, Nodes
<1>3. ASSUME NEW m \in Masters, NEW s \in Slaves, NEW c \in CorrIds, UnpairRequest(m, s, c)
      PROVE  TypeOK'
  BY <1>3, UnpairRequestType
<1>4. ASSUME NEW s \in Slaves, TickDiscovery(s) PROVE TypeOK'
  BY <1>4, TickDiscoveryType
<1>5. ASSUME NEW n \in Nodes, HandleFrame(n) PROVE TypeOK'
  BY <1>5, OnDiscoveryType, OnPairInitType, OnPairInitAckType, OnPairConfirmType,
     OnPairConfirmAckType, OnPairBusyType, OnUnpairRequestType, OnUnpairAckType, IgnoreFrameType
     DEF HandleFrame
<1>6. ASSUME NEW n \in Nodes, TickTimer(n) PROVE TypeOK'
  BY <1>6, TickSecureGuardType, TickPairTimeoutType, TickUnpairTimeoutType,
     TickDeferredCleanupType DEF TickTimer
<1>7. ASSUME NEW n \in Nodes, Reboot(n) \/ HardReinit(n) PROVE TypeOK'
  BY <1>7, RebootType, HardReinitType
<1>8. ASSUME NEW n \in Nodes, NEW p \in Nodes, RemovePeerRequest(n, p) PROVE TypeOK'
  BY <1>8, RemovePeerRequestType
<1> QED BY <1>1, <1>2, <1>3, <1>4, <1>5, <1>6, <1>7, <1>8 DEF Next

(* The pairing engine never runs a handler on fields of the wrong kind: a   *)
(* handshake in progress always has a peer, a correlation id, a nonce and,  *)
(* from the InitAck on, a derived key, whatever failed or restarted before. *)
THEOREM TypeCorrect == Spec => []TypeOK
  BY InitType, NextType, PTL DEF Spec

-----------------------------------------------------------------------------
(* Paired devices have the records and keys they claim.  The invariant adds *)
(* where nonces come from: a frame that starts or confirms a handshake      *)
(* carries a nonce its sender drew, a master runs its handshake on a nonce  *)
(* of its own and a slave on one of the peer it adopted.  Without it        *)
(* onPairConfirm, which compares nonces but not senders, could install the  *)
(* key of one master and persist it for another.                            *)

OwnFrames == {f \in Frames : f.type \in {"PairInit", "PairConfirm"} => f.nonce[1] = f.src}

(* What must hold of a device with engine e, peer table r and records R.    *)
LocalOK(n, e, r, R) ==
  /\ e.st = "Secured" =>
       /\ e.peer \in Nodes /\ R[e.peer] # None
       /\ n \in Slaves => R[e.peer] = e.lmk /\ r[e.peer].hw = e.lmk
  /\ e.st = "Pairing" => /\ n \in Masters => e.nonce[1] = n
                         /\ n \in Slaves => e.nonce[1] = e.peer

DevicesOK == \A n \in Nodes : LocalOK(n, eng[n], radio[n], rec[n])

KInv == /\ TypeOK
        /\ DevicesOK
        /\ rxq \in [Nodes -> Seq(OwnFrames)]

(* No device but n changes its engine, its peer table or its records.       *)
OnlyAt(n) == \A i \in Nodes \ {n} : /\ eng'[i] = eng[i] /\ radio'[i] = radio[i]
                                    /\ rec'[i] = rec[i]

LEMMA DeviceStep ==
  ASSUME DevicesOK, NEW n \in Nodes, OnlyAt(n), LocalOK(n, eng'[n], radio'[n], rec'[n])
  PROVE  DevicesOK'
<1> SUFFICES ASSUME NEW i \in Nodes PROVE LocalOK(i, eng'[i], radio'[i], rec'[i])
  BY DEF DevicesOK
<1> QED BY DEF DevicesOK, OnlyAt

(* A device that gives up its handshake claims nothing.                     *)
LEMMA FailPairingDevice ==
  ASSUME TypeOK, NEW n \in Nodes, NEW p \in Nodes, NEW e \in Engines,
         NEW r \in RadioTables, FailPairing(n, e, r, p)
  PROVE  /\ eng'[n].st = "Unpaired"
         /\ \A i \in Nodes \ {n} : eng'[i] = eng[i] /\ radio'[i] = radio[i]
         /\ \A R : LocalOK(n, eng'[n], radio'[n], R)
<1>1. eng' = [eng EXCEPT ![n] = ResetPairing(e)] /\ radio' = [radio EXCEPT ![n] = RemovePeer(r, p)]
  BY DEF FailPairing
<1>2. eng'[n] = ResetPairing(e)
  BY <1>1 DEF TypeOK
<1>3. eng'[n].st = "Unpaired"
  BY <1>2, ResetPairingResult
<1>4. \A i \in Nodes \ {n} : eng'[i] = eng[i] /\ radio'[i] = radio[i]
  BY <1>1 DEF TypeOK
<1> QED BY <1>3, <1>4 DEF LocalOK

LEMMA OwnFrameResult ==
  ASSUME NEW f \in Frames, f.type \notin {"PairInit", "PairConfirm"} \/ f.nonce[1] = f.src
  PROVE  f \in OwnFrames
  BY DEF OwnFrames

LEMMA RequestPairKeys ==
  ASSUME KInv, NEW m \in Masters, NEW s \in Nodes, NEW c \in CorrIds,
         NEW q \in [Nodes -> Seq(OwnFrames)], RequestPair(m, s, c, q)
  PROVE  DevicesOK' /\ rxq' \in [Nodes -> Seq(OwnFrames)]
<1> DEFINE x == <<m, attempts[m] + 1>>
           e == [eng[m] EXCEPT !.st = "Pairing", !.phase = "MasterWaitInitAck",
                               !.peer = s, !.corr = c, !.nonce = x]
<1>1. /\ m \in Nodes /\ m \notin Slaves /\ TypeOK /\ DevicesOK
      /\ eng[m] \in Engines /\ radio[m] \in RadioTables
  BY Roles DEF Nodes, KInv, TypeOK
<1>2. x \in Nonces /\ x[1] = m
  <2>1. attempts[m] \in 0 .. MaxAttempts /\ attempts[m] < MaxAttempts
    BY <1>1 DEF TypeOK, RequestPair
  <2>2. attempts[m] + 1 \in 1 .. MaxAttempts
    BY <2>1, Bounds
  <2> QED BY <2>2 DEF Nonces
<1>3. e \in Engines /\ e.st = "Pairing" /\ e.nonce = x
  BY <1>1, <1>2, Bounds DEF Engines, LinkStates, PairPhases
<1>4. rec' = rec
  BY DEF RequestPair
<1>5. PICK a \in AddPeer(radio[m], s, Plain) :
        \/ FailPairing(m, e, a.radio, s) /\ rxq' = q
        \/ \E t \in Send(a.radio, s) :
             \/ FailPairing(m, e, t.radio, s) /\ rxq' = q
             \/ /\ eng' = [eng EXCEPT ![m] = e]
                /\ radio' = [radio EXCEPT ![m] = t.radio]
                /\ rxq' = Transmit(q, t, m, s, Frame("PairInit", m, c, x, t.key))
  BY DEF RequestPair
<1> HIDE DEF e, x
<1>6. a.radio \in RadioTables
  BY <1>1, AddPeerResult DEF Entries
<1>7. ASSUME NEW r \in RadioTables, FailPairing(m, e, r, s)
      PROVE  DevicesOK'
  BY <1>1, <1>3, <1>4, <1>7, FailPairingDevice, DeviceStep DEF OnlyAt
<1>8. ASSUME NEW t \in Send(a.radio, s),
             eng' = [eng EXCEPT ![m] = e], radio' = [radio EXCEPT ![m] = t.radio],
             rxq' = Transmit(q, t, m, s, Frame("PairInit", m, c, x, t.key))
      PROVE  DevicesOK' /\ rxq' \in [Nodes -> Seq(OwnFrames)]
  <2>1. Frame("PairInit", m, c, x, t.key) \in Frames
    BY <1>1, <1>2, <1>6, SendResult, FrameResult
  <2>2. Frame("PairInit", m, c, x, t.key) \in OwnFrames
    BY <2>1, <1>2, OwnFrameResult DEF Frame
  <2>3. rxq' \in [Nodes -> Seq(OwnFrames)]
    BY <2>2, <1>8, TransmitResult
  <2>4. OnlyAt(m) /\ eng'[m] = e
    BY <1>1, <1>4, <1>8 DEF OnlyAt, TypeOK
  <2>5. LocalOK(m, eng'[m], radio'[m], rec'[m])
    BY <2>4, <1>1, <1>2, <1>3 DEF LocalOK
  <2> QED BY <2>3, <2>4, <2>5, <1>1, DeviceStep
<1>9. \A t \in Send(a.radio, s) : t.radio \in RadioTables
  BY <1>6, SendResult
<1> QED BY <1>5, <1>6, <1>7, <1>8, <1>9

LEMMA HeadOwnFrame ==
  ASSUME KInv, NEW n \in Nodes, rxq[n] # <<>>
  PROVE  /\ Head(rxq[n]) \in OwnFrames /\ Head(rxq[n]) \in Frames
         /\ Head(rxq[n]).src \in Nodes /\ Head(rxq[n]).corr \in CorrIds
         /\ Pop(n) \in [Nodes -> Seq(OwnFrames)]
<1>1. Head(rxq[n]) \in OwnFrames /\ Pop(n) \in [Nodes -> Seq(OwnFrames)]
  BY PopResult DEF KInv
<1> QED BY <1>1 DEF OwnFrames, Frames

(* A reply carries no nonce, or one the receiver will compare.              *)
LEMMA ReplyKeys ==
  ASSUME NEW n \in Nodes, NEW p, NEW t, NEW q \in [Nodes -> Seq(OwnFrames)],
         NEW f \in Frames, f.type \notin {"PairInit", "PairConfirm"}
  PROVE  Transmit(q, t, n, p, f) \in [Nodes -> Seq(OwnFrames)]
  BY OwnFrameResult, TransmitResult

LEMMA BusyRejectKeys ==
  ASSUME KInv, NEW s \in Slaves, NEW f \in Frames, rxq[s] # <<>>,
         eng[s].st = "Pairing", BusyReject(s, f), rec' = rec
  PROVE  DevicesOK' /\ rxq' \in [Nodes -> Seq(OwnFrames)]
<1>1. /\ s \in Nodes /\ f.src \in Nodes /\ f.corr \in CorrIds /\ Plain \in Entries
      /\ TypeOK /\ DevicesOK /\ radio[s] \in RadioTables
  BY DEF Nodes, Frames, Entries, KInv, TypeOK
<1>2. PICK a \in AddPeer(radio[s], f.src, Plain) : \E t \in Send(a.radio, f.src) :
        /\ radio' = [radio EXCEPT ![s] = t.radio]
        /\ rxq' = Transmit(Pop(s), t, s, f.src, Frame("PairBusy", s, f.corr, NoNonce, t.key))
  BY DEF BusyReject
<1>3. a.radio \in RadioTables
  BY <1>1, AddPeerResult
<1>4. PICK t \in Send(a.radio, f.src) :
        /\ radio' = [radio EXCEPT ![s] = t.radio]
        /\ rxq' = Transmit(Pop(s), t, s, f.src, Frame("PairBusy", s, f.corr, NoNonce, t.key))
  BY <1>2
<1>5. Frame("PairBusy", s, f.corr, NoNonce, t.key) \in Frames
  BY <1>1, <1>3, SendResult, FrameResult
<1>6. rxq' \in [Nodes -> Seq(OwnFrames)]
  BY <1>1, <1>4, <1>5, HeadOwnFrame, ReplyKeys DEF Frame
<1>7. OnlyAt(s) /\ eng'[s] = eng[s]
  BY <1>1, <1>4 DEF OnlyAt, TypeOK, BusyReject
<1>8. LocalOK(s, eng'[s], radio'[s], rec'[s])
  BY <1>1, <1>7 DEF LocalOK, DevicesOK
<1> QED BY <1>1, <1>6, <1>7, <1>8, DeviceStep

LEMMA PrepareKeys ==
  ASSUME KInv, NEW s \in Slaves, NEW f \in OwnFrames, rxq[s] # <<>>,
         f.type = "PairInit", Prepare(s, f), rec' = rec
  PROVE  DevicesOK' /\ rxq' \in [Nodes -> Seq(OwnFrames)]
<1> DEFINE e == [eng[s] EXCEPT !.st = "Pairing", !.phase = "SlaveWaitConfirm",
                               !.peer = f.src, !.corr = f.corr, !.nonce = f.nonce]
           k == DeriveLmk(f.src, s, f.nonce)
           e2 == [e EXCEPT !.lmk = k]
           f2(t) == Frame("PairInitAck", s, f.corr, f.nonce, t.key)
<1>1. /\ s \in Nodes /\ s \notin Masters /\ f \in Frames /\ f.src \in Nodes /\ f.src \in Masters
      /\ f.corr \in CorrIds /\ f.nonce \in Nonces /\ f.nonce[1] = f.src /\ Plain \in Entries
  BY Roles DEF Nodes, OwnFrames, Frames, Entries
<1>2. /\ eng[s] \in Engines /\ radio[s] \in RadioTables
      /\ TypeOK /\ DevicesOK /\ Pop(s) \in [Nodes -> Seq(OwnFrames)]
  BY <1>1, HeadOwnFrame DEF KInv, TypeOK
<1>3. k \in Keys /\ k \in Entries
  BY <1>1 DEF DeriveLmk, Keys, Entries
<1>4. e \in Engines
  BY <1>1, <1>2, Bounds DEF Engines, LinkStates, PairPhases
<1>5. /\ e2 \in Engines /\ e2.st = "Pairing"
      /\ e2.nonce = f.nonce /\ e2.peer = f.src
  BY <1>1, <1>2, <1>3, Bounds DEF Engines, LinkStates, PairPhases
<1>6. PICK a \in AddPeer(radio[s], f.src, Plain) :
       \/ FailPairing(s, e, a.radio, f.src) /\ rxq' = Pop(s)
       \/ \E t \in Send(a.radio, f.src) :
            \/ FailPairing(s, e, t.radio, f.src) /\ rxq' = Pop(s)
            \/ /\ rxq' = Transmit(Pop(s), t, s, f.src, f2(t))
               /\ \E b \in AddPeer(RemovePeer(t.radio, f.src), f.src, k) :
                    \/ FailPairing(s, e2, b.radio, f.src)
                    \/ /\ eng' = [eng EXCEPT ![s] = e2]
                       /\ radio' = [radio EXCEPT ![s] = b.radio]
  BY DEF Prepare
<1> HIDE DEF e, e2, k
<1>7. a.radio \in RadioTables
  BY <1>1, <1>2, AddPeerResult
<1>8. ASSUME NEW r \in RadioTables,
             FailPairing(s, e, r, f.src) \/ FailPairing(s, e2, r, f.src)
      PROVE  DevicesOK'
  BY <1>8, <1>1, <1>2, <1>4, <1>5, FailPairingDevice, DeviceStep DEF OnlyAt
<1>9. ASSUME NEW t \in Send(a.radio, f.src), rxq' = Transmit(Pop(s), t, s, f.src, f2(t))
      PROVE  rxq' \in [Nodes -> Seq(OwnFrames)]
  <2>1. f2(t) \in Frames
    BY <1>1, <1>7, SendResult, FrameResult
  <2>2. f2(t).type = "PairInitAck"
    BY DEF Frame
  <2> HIDE DEF f2
  <2> QED BY <2>1, <2>2, <1>1, <1>2, <1>9, ReplyKeys
<1>10. \A t \in Send(a.radio, f.src) :
         /\ t.radio \in RadioTables
         /\ \A b \in AddPeer(RemovePeer(t.radio, f.src), f.src, k) : b.radio \in RadioTables
  BY <1>1, <1>3, <1>7, SendResult, RemovePeerResult, AddPeerResult
<1>11. ASSUME NEW r \in RadioTables, eng' = [eng EXCEPT ![s] = e2],
              radio' = [radio EXCEPT ![s] = r]
       PROVE  DevicesOK'
  <2>1. OnlyAt(s) /\ eng'[s] = e2
    BY <1>1, <1>2, <1>11 DEF OnlyAt, TypeOK
  <2>2. LocalOK(s, eng'[s], radio'[s], rec'[s])
    BY <2>1, <1>1, <1>5 DEF LocalOK
  <2> QED BY <2>1, <2>2, <1>1, <1>2, DeviceStep
<1> QED
  <2>1. CASE FailPairing(s, e, a.radio, f.src) /\ rxq' = Pop(s)
    BY <2>1, <1>2, <1>7, <1>8
  <2>2. ASSUME NEW t \in Send(a.radio, f.src), FailPairing(s, e, t.radio, f.src), rxq' = Pop(s)
        PROVE  DevicesOK' /\ rxq' \in [Nodes -> Seq(OwnFrames)]
    BY <2>2, <1>2, <1>8, <1>10
  <2>3. ASSUME NEW t \in Send(a.radio, f.src),
               NEW b \in AddPeer(RemovePeer(t.radio, f.src), f.src, k),
               rxq' = Transmit(Pop(s), t, s, f.src, f2(t)),
               \/ FailPairing(s, e2, b.radio, f.src)
               \/ eng' = [eng EXCEPT ![s] = e2] /\ radio' = [radio EXCEPT ![s] = b.radio]
        PROVE  DevicesOK' /\ rxq' \in [Nodes -> Seq(OwnFrames)]
    <3>1. b.radio \in RadioTables
      BY <1>10
    <3> QED BY <2>3, <3>1, <1>8, <1>9, <1>11
  <2> QED BY <1>6, <2>1, <2>2, <2>3

LEMMA OnPairInitKeys ==
  ASSUME KInv, NEW s \in Slaves, OnPairInit(s)
  PROVE  DevicesOK' /\ rxq' \in [Nodes -> Seq(OwnFrames)]
<1> DEFINE f == Head(rxq[s])
<1>1. s \in Nodes /\ rxq[s] # <<>> /\ f.type = "PairInit" /\ rec' = rec
  BY DEF OnPairInit, HeadIs, Nodes
<1>2. f \in OwnFrames /\ f \in Frames
  BY <1>1, HeadOwnFrame
<1>3. (eng[s].st = "Pairing" /\ BusyReject(s, f)) \/ Prepare(s, f)
  BY DEF OnPairInit
<1> HIDE DEF f
<1> QED BY <1>1, <1>2, <1>3, BusyRejectKeys, PrepareKeys

LEMMA OnPairInitAckKeys ==
  ASSUME KInv, NEW m \in Masters, OnPairInitAck(m)
  PROVE  DevicesOK' /\ rxq' \in [Nodes -> Seq(OwnFrames)]
<1> DEFINE f == Head(rxq[m])
           k == DeriveLmk(m, f.src, eng[m].nonce)
           e == [eng[m] EXCEPT !.lmk = k]
           g == [e EXCEPT !.phase = "MasterSecureGuard"]
<1>1. m \in Nodes /\ m \notin Slaves /\ rxq[m] # <<>> /\ f.type = "PairInitAck" /\ rec' = rec
  BY Roles DEF OnPairInitAck, HeadIs, Nodes
<1>2. f \in Frames /\ f.src \in Nodes /\ Pop(m) \in [Nodes -> Seq(OwnFrames)]
  BY <1>1, HeadOwnFrame
<1>3. /\ eng[m] \in Engines /\ HandshakeOK(eng[m]) /\ radio[m] \in RadioTables
      /\ TypeOK /\ DevicesOK
  BY <1>1 DEF KInv, TypeOK
<1>4. eng[m].st = "Pairing" /\ eng[m].nonce \in Nonces /\ eng[m].nonce[1] = m
  BY <1>1, <1>3 DEF OnPairInitAck, AwaitsInitAck, HandshakeOK, DevicesOK, LocalOK
<1>5. k \in Keys /\ k \in Entries
  BY <1>1, <1>2, <1>4 DEF DeriveLmk, Keys, Entries, Frames
<1>6. /\ e \in Engines /\ g \in Engines
      /\ g.st = "Pairing" /\ g.nonce = eng[m].nonce
  BY <1>3, <1>4, <1>5 DEF Engines, LinkStates, PairPhases
<1>7. \/ FailPairing(m, eng[m], radio[m], f.src)
      \/ \E a \in AddPeer(RemovePeer(radio[m], f.src), f.src, k) :
           \/ FailPairing(m, e, a.radio, f.src)
           \/ eng' = [eng EXCEPT ![m] = g] /\ radio' = [radio EXCEPT ![m] = a.radio]
  BY DEF OnPairInitAck
<1>8. rxq' \in [Nodes -> Seq(OwnFrames)]
  BY <1>2 DEF OnPairInitAck
<1> HIDE DEF f, k, e, g
<1>9. ASSUME NEW h \in Engines, NEW r \in RadioTables, FailPairing(m, h, r, f.src)
      PROVE  DevicesOK'
  BY <1>9, <1>1, <1>2, <1>3, FailPairingDevice, DeviceStep DEF OnlyAt
<1>10. ASSUME NEW r \in RadioTables, eng' = [eng EXCEPT ![m] = g],
              radio' = [radio EXCEPT ![m] = r]
       PROVE  DevicesOK'
  <2>1. OnlyAt(m) /\ eng'[m] = g
    BY <1>1, <1>3, <1>10 DEF OnlyAt, TypeOK
  <2>2. LocalOK(m, eng'[m], radio'[m], rec'[m])
    BY <2>1, <1>1, <1>4, <1>6 DEF LocalOK
  <2> QED BY <2>1, <2>2, <1>1, <1>3, DeviceStep
<1>11. \A a \in AddPeer(RemovePeer(radio[m], f.src), f.src, k) : a.radio \in RadioTables
  BY <1>2, <1>3, <1>5, RemovePeerResult, AddPeerResult
<1> QED BY <1>3, <1>6, <1>7, <1>8, <1>9, <1>10, <1>11

LEMMA TickSecureGuardKeys ==
  ASSUME KInv, NEW m \in Masters, TickSecureGuard(m)
  PROVE  DevicesOK' /\ rxq' \in [Nodes -> Seq(OwnFrames)]
<1> DEFINE p == eng[m].peer
           e == [eng[m] EXCEPT !.phase = "MasterWaitConfirmAck"]
           f(t) == Frame("PairConfirm", m, eng[m].corr, eng[m].nonce, t.key)
<1>1. /\ m \in Nodes /\ m \notin Slaves /\ eng[m] \in Engines /\ HandshakeOK(eng[m])
      /\ radio[m] \in RadioTables /\ TypeOK /\ DevicesOK /\ rec' = rec
      /\ rxq \in [Nodes -> Seq(OwnFrames)]
  BY Roles DEF KInv, TypeOK, Nodes, TickSecureGuard
<1>2. /\ p \in Nodes /\ eng[m].corr \in CorrIds /\ eng[m].nonce \in Nonces
      /\ eng[m].nonce[1] = m /\ eng[m].st = "Pairing"
  BY <1>1 DEF TickSecureGuard, HandshakeOK, DevicesOK, LocalOK
<1>3. e.st = "Pairing" /\ e.nonce = eng[m].nonce
  BY <1>1, <1>2 DEF Engines
<1>4. PICK t \in Send(radio[m], p) :
        \/ FailPairing(m, eng[m], t.radio, p) /\ UNCHANGED rxq
        \/ /\ eng' = [eng EXCEPT ![m] = e]
           /\ radio' = [radio EXCEPT ![m] = t.radio]
           /\ rxq' = Transmit(rxq, t, m, p, f(t))
  BY DEF TickSecureGuard
<1> HIDE DEF p, e
<1>5. t.radio \in RadioTables /\ t.key \in Entries
  BY <1>1, <1>2, SendResult
<1>6. CASE FailPairing(m, eng[m], t.radio, p) /\ UNCHANGED rxq
  BY <1>6, <1>1, <1>2, <1>5, FailPairingDevice, DeviceStep DEF OnlyAt
<1>7. CASE /\ eng' = [eng EXCEPT ![m] = e]
           /\ radio' = [radio EXCEPT ![m] = t.radio]
           /\ rxq' = Transmit(rxq, t, m, p, f(t))
  <2>1. f(t) \in Frames
    BY <1>1, <1>2, <1>5, FrameResult
  <2>2. f(t) \in OwnFrames
    BY <2>1, <1>2, OwnFrameResult DEF Frame
  <2>3. OnlyAt(m) /\ eng'[m] = e
    BY <1>1, <1>7 DEF OnlyAt, TypeOK
  <2>4. LocalOK(m, eng'[m], radio'[m], rec'[m])
    BY <2>3, <1>1, <1>2, <1>3 DEF LocalOK
  <2> HIDE DEF f
  <2>5. rxq' \in [Nodes -> Seq(OwnFrames)]
    BY <2>2, <1>1, <1>7, TransmitResult
  <2> QED BY <2>3, <2>4, <2>5, <1>1, DeviceStep
<1> QED BY <1>4, <1>6, <1>7

(* onPairConfirm: the sender is the adopted master, because only its own    *)
(* frames carry the nonce; the key installed is the key persisted.          *)
LEMMA OnPairConfirmKeys ==
  ASSUME KInv, NEW s \in Slaves, OnPairConfirm(s)
  PROVE  DevicesOK' /\ rxq' \in [Nodes -> Seq(OwnFrames)]
<1> DEFINE f == Head(rxq[s])
           k == DeriveLmk(f.src, s, eng[s].nonce)
           e == [eng[s] EXCEPT !.lmk = k]
           d == [e EXCEPT !.st = "Secured", !.phase = "Idle"]
           ack(t) == Frame("PairConfirmAck", s, f.corr, NoNonce, t.key)
<1>1. s \in Nodes /\ s \notin Masters /\ rxq[s] # <<>> /\ f.type = "PairConfirm"
  BY Roles DEF OnPairConfirm, HeadIs, Nodes
<1>2. /\ f \in OwnFrames /\ f \in Frames /\ Pop(s) \in [Nodes -> Seq(OwnFrames)]
      /\ f.src \in Nodes /\ f.corr \in CorrIds
  BY <1>1, HeadOwnFrame
<1>3. f.src \in Masters /\ f.nonce[1] = f.src
  BY <1>1, <1>2 DEF OwnFrames, Frames
<1>4. /\ eng[s] \in Engines /\ HandshakeOK(eng[s]) /\ radio[s] \in RadioTables
      /\ TypeOK /\ DevicesOK
  BY <1>1 DEF KInv, TypeOK
<1>5. /\ eng[s].st = "Pairing" /\ eng[s].nonce \in Nonces /\ eng[s].peer \in Nodes
      /\ eng[s].nonce[1] = eng[s].peer
  BY <1>1, <1>4 DEF OnPairConfirm, AwaitsConfirm, HandshakeOK, DevicesOK, LocalOK
<1>6. k \in Keys /\ k \in Entries /\ k # None
  BY <1>3, <1>5, Sentinels DEF DeriveLmk, Keys, Entries
<1>7. /\ e \in Engines /\ d.st = "Secured" /\ d.lmk = k /\ d.peer = eng[s].peer
  BY <1>4, <1>6 DEF Engines
<1>8. \/ FailPairing(s, eng[s], radio[s], f.src) /\ rxq' = Pop(s) /\ UNCHANGED rec
      \/ /\ f.nonce = eng[s].nonce
         /\ \E a \in AddPeer(RemovePeer(radio[s], f.src), f.src, k) :
              \/ FailPairing(s, e, a.radio, f.src) /\ rxq' = Pop(s) /\ UNCHANGED rec
              \/ \E w \in PersistOutcomes :
                   /\ rec' = SavePair(s, eng[s].peer, k, w)
                   /\ \/ FailPairing(s, e, a.radio, f.src) /\ rxq' = Pop(s)
                      \/ /\ a.ok /\ Persisted(w)
                         /\ eng' = [eng EXCEPT ![s] = d]
                         /\ \E t \in Send(a.radio, f.src) :
                              /\ radio' = [radio EXCEPT ![s] = t.radio]
                              /\ rxq' = Transmit(Pop(s), t, s, f.src, ack(t))
  BY DEF OnPairConfirm
<1> HIDE DEF f, k, e, d
<1>9. ASSUME NEW h \in Engines, NEW r \in RadioTables, FailPairing(s, h, r, f.src),
             \A i \in Nodes \ {s} : rec'[i] = rec[i]
      PROVE  DevicesOK'
  BY <1>9, <1>1, <1>2, <1>4, FailPairingDevice, DeviceStep DEF OnlyAt
<1>10. \A a \in AddPeer(RemovePeer(radio[s], f.src), f.src, k) :
         a.radio \in RadioTables /\ (a.ok => a.radio[f.src].hw = k)
  BY <1>2, <1>4, <1>6, RemovePeerResult, AddPeerResult
<1>11. ASSUME NEW w \in PersistOutcomes, rec' = SavePair(s, eng[s].peer, k, w)
       PROVE  /\ \A i \in Nodes \ {s} : rec'[i] = rec[i]
              /\ w.pair => rec'[s][eng[s].peer] = k
  BY <1>11, <1>1, <1>4, <1>5 DEF SavePair, TypeOK
<1>12. ASSUME NEW a \in AddPeer(RemovePeer(radio[s], f.src), f.src, k), a.ok,
              NEW w \in PersistOutcomes, rec' = SavePair(s, eng[s].peer, k, w), Persisted(w),
              f.nonce = eng[s].nonce, eng' = [eng EXCEPT ![s] = d],
              NEW t \in Send(a.radio, f.src), radio' = [radio EXCEPT ![s] = t.radio],
              rxq' = Transmit(Pop(s), t, s, f.src, ack(t))
       PROVE  DevicesOK' /\ rxq' \in [Nodes -> Seq(OwnFrames)]
  <2>1. f.src = eng[s].peer
    BY <1>3, <1>5, <1>12
  <2>2. a.radio \in RadioTables /\ a.radio[f.src].hw = k
    BY <1>10, <1>12
  <2>3. t.radio = a.radio
    BY <2>2, <1>2, <1>6, SendResult
  <2>4. OnlyAt(s) /\ eng'[s] = d /\ radio'[s] = a.radio
    BY <2>3, <1>1, <1>4, <1>11, <1>12 DEF OnlyAt, TypeOK
  <2>5. rec'[s][eng[s].peer] = k
    BY <1>11, <1>12 DEF Persisted
  <2>6. LocalOK(s, eng'[s], radio'[s], rec'[s])
    BY <2>1, <2>2, <2>4, <2>5, <1>2, <1>6, <1>7 DEF LocalOK
  <2>7. ack(t) \in Frames /\ ack(t).type = "PairConfirmAck"
    BY <2>2, <1>1, <1>2, SendResult, FrameResult DEF Frame
  <2> HIDE DEF ack
  <2>8. rxq' \in [Nodes -> Seq(OwnFrames)]
    BY <2>7, <1>1, <1>2, <1>12, ReplyKeys
  <2> QED BY <2>4, <2>6, <2>8, <1>1, <1>4, DeviceStep
<1> QED
  <2>1. CASE FailPairing(s, eng[s], radio[s], f.src) /\ rxq' = Pop(s) /\ UNCHANGED rec
    BY <2>1, <1>2, <1>4, <1>9
  <2>2. ASSUME NEW a \in AddPeer(RemovePeer(radio[s], f.src), f.src, k),
               FailPairing(s, e, a.radio, f.src), rxq' = Pop(s),
               \A i \in Nodes \ {s} : rec'[i] = rec[i]
        PROVE  DevicesOK' /\ rxq' \in [Nodes -> Seq(OwnFrames)]
    BY <2>2, <1>2, <1>7, <1>9, <1>10
  <2> QED BY <1>8, <1>11, <1>12, <2>1, <2>2

LEMMA OnPairConfirmAckKeys ==
  ASSUME KInv, NEW m \in Masters, OnPairConfirmAck(m)
  PROVE  DevicesOK' /\ rxq' \in [Nodes -> Seq(OwnFrames)]
<1> DEFINE f == Head(rxq[m])
           e == [eng[m] EXCEPT !.st = "Secured", !.phase = "Idle", !.nonce = NoNonce]
<1>1. m \in Nodes /\ m \notin Slaves /\ rxq[m] # <<>>
  BY Roles DEF OnPairConfirmAck, HeadIs, Nodes
<1>2. Pop(m) \in [Nodes -> Seq(OwnFrames)] /\ f.src \in Nodes
  BY <1>1, HeadOwnFrame
<1>3. /\ eng[m] \in Engines /\ HandshakeOK(eng[m]) /\ radio[m] \in RadioTables
      /\ TypeOK /\ DevicesOK
  BY <1>1 DEF KInv, TypeOK
<1>4. eng[m].peer \in Nodes /\ eng[m].lmk \in Keys /\ eng[m].lmk # None
  BY <1>3, Sentinels DEF OnPairConfirmAck, AwaitsConfirmAck, HandshakeOK
<1>5. e \in Engines /\ e.st = "Secured" /\ e.peer = eng[m].peer
  BY <1>3 DEF Engines, LinkStates, PairPhases
<1>6. PICK w \in PersistOutcomes :
        /\ rec' = SavePair(m, eng[m].peer, eng[m].lmk, w)
        /\ \/ FailPairing(m, e, radio[m], f.src)
           \/ Persisted(w) /\ eng' = [eng EXCEPT ![m] = e] /\ UNCHANGED radio
  BY DEF OnPairConfirmAck
<1>7. rxq' = Pop(m)
  BY DEF OnPairConfirmAck
<1>8. /\ \A i \in Nodes \ {m} : rec'[i] = rec[i]
      /\ w.pair => rec'[m][eng[m].peer] = eng[m].lmk
  BY <1>1, <1>3, <1>4, <1>6 DEF SavePair, TypeOK
<1> HIDE DEF f, e
<1>9. CASE FailPairing(m, e, radio[m], f.src)
  BY <1>9, <1>1, <1>2, <1>3, <1>5, <1>7, <1>8, FailPairingDevice, DeviceStep DEF OnlyAt
<1>10. CASE Persisted(w) /\ eng' = [eng EXCEPT ![m] = e] /\ UNCHANGED radio
  <2>1. OnlyAt(m) /\ eng'[m] = e
    BY <1>1, <1>3, <1>8, <1>10 DEF OnlyAt, TypeOK
  <2>2. LocalOK(m, eng'[m], radio'[m], rec'[m])
    BY <2>1, <1>1, <1>4, <1>5, <1>8, <1>10 DEF LocalOK, Persisted
  <2> QED BY <2>1, <2>2, <1>1, <1>2, <1>3, <1>7, DeviceStep
<1> QED BY <1>6, <1>9, <1>10

LEMMA OnPairBusyKeys ==
  ASSUME KInv, NEW m \in Masters, OnPairBusy(m)
  PROVE  DevicesOK' /\ rxq' \in [Nodes -> Seq(OwnFrames)]
<1>1. m \in Nodes /\ rxq[m] # <<>> /\ TypeOK /\ DevicesOK
  BY DEF OnPairBusy, HeadIs, Nodes, KInv
<1>2. Pop(m) \in [Nodes -> Seq(OwnFrames)] /\ Head(rxq[m]).src \in Nodes
  BY <1>1, HeadOwnFrame
<1>3. eng[m] \in Engines /\ radio[m] \in RadioTables
  BY <1>1 DEF TypeOK
<1> QED BY <1>1, <1>2, <1>3, FailPairingDevice, DeviceStep DEF OnPairBusy, OnlyAt

LEMMA TickPairTimeoutKeys ==
  ASSUME KInv, NEW n \in Nodes, TickPairTimeout(n)
  PROVE  DevicesOK' /\ rxq' \in [Nodes -> Seq(OwnFrames)]
<1>1. /\ eng[n] \in Engines /\ HandshakeOK(eng[n]) /\ radio[n] \in RadioTables
      /\ TypeOK /\ DevicesOK /\ rxq \in [Nodes -> Seq(OwnFrames)]
  BY DEF KInv, TypeOK
<1>2. eng[n].peer \in Nodes
  BY <1>1 DEF TickPairTimeout, HandshakeOK
<1> QED BY <1>1, <1>2, FailPairingDevice, DeviceStep DEF TickPairTimeout, OnlyAt

LEMMA UnpairRequestKeys ==
  ASSUME KInv, NEW m \in Masters, NEW s \in Slaves, NEW c \in CorrIds, UnpairRequest(m, s, c)
  PROVE  DevicesOK' /\ rxq' \in [Nodes -> Seq(OwnFrames)]
<1>1. /\ m \in Nodes /\ m \notin Slaves /\ s \in Nodes /\ eng[m] \in Engines
      /\ radio[m] \in RadioTables /\ TypeOK /\ DevicesOK /\ rxq \in [Nodes -> Seq(OwnFrames)]
  BY Roles DEF KInv, TypeOK, Nodes
<1>2. PICK t \in Send(radio[m], s) :
        /\ radio' = [radio EXCEPT ![m] = t.radio]
        /\ eng' = [eng EXCEPT ![m] = [@ EXCEPT !.peer = s, !.unpairPending = t.ok,
                                               !.unpairCorr = IF t.ok THEN c ELSE 0]]
        /\ rxq' = Transmit(rxq, t, m, s, Frame("UnpairRequest", m, c, NoNonce, t.key))
  BY DEF UnpairRequest
<1>3. Frame("UnpairRequest", m, c, NoNonce, t.key) \in Frames
  BY <1>1, SendResult, FrameResult
<1>4. rxq' \in [Nodes -> Seq(OwnFrames)]
  BY <1>1, <1>2, <1>3, ReplyKeys DEF Frame
<1>5. rec' = rec /\ rec[m][s] # None /\ eng[m].st = "Secured"
  BY DEF UnpairRequest
<1>6. OnlyAt(m) /\ eng'[m].st = "Secured" /\ eng'[m].peer = s
  BY <1>1, <1>2, <1>5 DEF OnlyAt, TypeOK, Engines
<1>7. LocalOK(m, eng'[m], radio'[m], rec'[m])
  BY <1>1, <1>5, <1>6 DEF LocalOK
<1> QED BY <1>1, <1>4, <1>6, <1>7, DeviceStep

(* The send of the UnpairAck leaves the key of the current peer alone.      *)
LEMMA OnUnpairRequestKeys ==
  ASSUME KInv, NEW n \in Nodes, OnUnpairRequest(n)
  PROVE  DevicesOK' /\ rxq' \in [Nodes -> Seq(OwnFrames)]
<1> DEFINE f == Head(rxq[n])
<1>1. /\ rxq[n] # <<>> /\ eng[n].st = "Secured" /\ rec' = rec
      /\ eng[n] \in Engines /\ radio[n] \in RadioTables /\ TypeOK /\ DevicesOK
  BY DEF OnUnpairRequest, HeadIs, KInv, TypeOK
<1>2. Pop(n) \in [Nodes -> Seq(OwnFrames)] /\ f.src \in Nodes /\ f.corr \in CorrIds
  BY <1>1, HeadOwnFrame
<1>3. PICK t \in Send(radio[n], f.src) :
        /\ radio' = [radio EXCEPT ![n] = t.radio]
        /\ eng' = IF t.ok THEN [eng EXCEPT ![n].deferredPeer = f.src] ELSE eng
        /\ rxq' = Transmit(Pop(n), t, n, f.src, Frame("UnpairAck", n, f.corr, NoNonce, t.key))
  BY DEF OnUnpairRequest
<1>4. Frame("UnpairAck", n, f.corr, NoNonce, t.key) \in Frames
  BY <1>1, <1>2, SendResult, FrameResult
<1>5. rxq' \in [Nodes -> Seq(OwnFrames)]
  BY <1>2, <1>3, <1>4, ReplyKeys DEF Frame
<1>6. /\ OnlyAt(n) /\ radio'[n] = t.radio /\ eng'[n].st = "Secured"
      /\ eng'[n].peer = eng[n].peer /\ eng'[n].lmk = eng[n].lmk
  BY <1>1, <1>3 DEF OnlyAt, TypeOK, Engines
<1>7. LocalOK(n, eng[n], radio[n], rec[n])
  BY <1>1 DEF DevicesOK
<1>8. ASSUME n \in Slaves
      PROVE  t.radio[eng[n].peer].hw = eng[n].lmk
  <2>1. eng[n].peer \in Nodes /\ radio[n][eng[n].peer].hw = eng[n].lmk
    BY <1>1, <1>7, <1>8 DEF LocalOK
  <2>2. eng[n].lmk # None
    BY <1>1, <1>7, <1>8 DEF LocalOK
  <2>3. CASE f.src = eng[n].peer
    BY <2>1, <2>2, <2>3, <1>1, <1>2, SendResult
  <2>4. CASE f.src # eng[n].peer
    BY <2>1, <2>4, <1>1, <1>2, SendResult
  <2> QED BY <2>3, <2>4
<1>9. LocalOK(n, eng'[n], radio'[n], rec'[n])
  BY <1>1, <1>6, <1>7, <1>8 DEF LocalOK
<1> QED BY <1>1, <1>5, <1>6, <1>9, DeviceStep

(* Forgetting a peer that is not the current one, or resetting.             *)
LEMMA ForgetDevice ==
  ASSUME TypeOK, DevicesOK, NEW n \in Nodes, NEW p \in Nodes,
         rec' \in ErasePairs(n, {p}), radio' = [radio EXCEPT ![n] = RemovePeer(@, p)],
         \/ eng' = [eng EXCEPT ![n] = ResetPairing(@)]
         \/ eng' = eng /\ (eng[n].st = "Secured" => p # eng[n].peer)
  PROVE  DevicesOK'
<1>1. eng[n] \in Engines /\ radio[n] \in RadioTables /\ LocalOK(n, eng[n], radio[n], rec[n])
  BY DEF TypeOK, DevicesOK
<1>2. /\ \A i \in Nodes \ {n} : rec'[i] = rec[i]
      /\ \A q \in Nodes \ {p} : rec'[n][q] = rec[n][q]
  <2>1. PICK D \in SUBSET {p} :
          rec' = [rec EXCEPT ![n] = [q \in Nodes |-> IF q \in D THEN None ELSE rec[n][q]]]
    BY DEF ErasePairs
  <2> QED BY <2>1 DEF TypeOK
<1>3. radio'[n] = RemovePeer(radio[n], p) /\ \A i \in Nodes \ {n} : radio'[i] = radio[i]
  BY DEF TypeOK
<1>4. CASE eng' = [eng EXCEPT ![n] = ResetPairing(@)]
  <2>1. OnlyAt(n) /\ eng'[n] = ResetPairing(eng[n])
    BY <1>2, <1>3, <1>4 DEF OnlyAt, TypeOK
  <2>2. LocalOK(n, eng'[n], radio'[n], rec'[n])
    BY <2>1, <1>1, ResetPairingResult DEF LocalOK
  <2> QED BY <2>1, <2>2, DeviceStep
<1>5. CASE eng' = eng /\ (eng[n].st = "Secured" => p # eng[n].peer)
  <2>1. OnlyAt(n) /\ eng'[n] = eng[n]
    BY <1>2, <1>3, <1>5 DEF OnlyAt
  <2>2. \A q \in Nodes \ {p} : radio'[n][q] = radio[n][q]
    BY <1>1, <1>3, RemovePeerResult
  <2>3. LocalOK(n, eng'[n], radio'[n], rec'[n])
    BY <2>1, <2>2, <1>1, <1>2, <1>5 DEF LocalOK
  <2> QED BY <2>1, <2>3, DeviceStep
<1> QED BY <1>4, <1>5

LEMMA TickDeferredCleanupKeys ==
  ASSUME KInv, NEW n \in Nodes, TickDeferredCleanup(n)
  PROVE  DevicesOK' /\ rxq' \in [Nodes -> Seq(OwnFrames)]
<1>1. eng[n].deferredPeer \in Nodes
  BY DEF KInv, TypeOK, Engines, TickDeferredCleanup
<1> QED BY <1>1, ForgetDevice DEF KInv, TickDeferredCleanup

LEMMA OnUnpairAckKeys ==
  ASSUME KInv, NEW n \in Nodes, OnUnpairAck(n)
  PROVE  DevicesOK' /\ rxq' \in [Nodes -> Seq(OwnFrames)]
<1>1. rxq[n] # <<>>
  BY DEF OnUnpairAck, HeadIs
<1>2. Pop(n) \in [Nodes -> Seq(OwnFrames)] /\ Head(rxq[n]).src \in Nodes
  BY <1>1, HeadOwnFrame
<1> QED BY <1>2, ForgetDevice DEF KInv, OnUnpairAck

LEMMA TickUnpairTimeoutKeys ==
  ASSUME KInv, NEW n \in Nodes, TickUnpairTimeout(n)
  PROVE  DevicesOK' /\ rxq' \in [Nodes -> Seq(OwnFrames)]
<1>1. TypeOK /\ DevicesOK /\ eng[n] \in Engines
  BY DEF KInv, TypeOK
<1>2. /\ OnlyAt(n) /\ radio'[n] = radio[n] /\ rec'[n] = rec[n]
      /\ eng'[n] = [eng[n] EXCEPT !.unpairPending = FALSE]
  BY <1>1 DEF TickUnpairTimeout, OnlyAt, TypeOK
<1>3. /\ eng'[n].st = eng[n].st /\ eng'[n].peer = eng[n].peer
      /\ eng'[n].lmk = eng[n].lmk /\ eng'[n].nonce = eng[n].nonce
  BY <1>1, <1>2 DEF Engines
<1>4. LocalOK(n, eng'[n], radio'[n], rec'[n])
  BY <1>1, <1>2, <1>3 DEF LocalOK, DevicesOK
<1> QED BY <1>1, <1>2, <1>4, DeviceStep DEF TickUnpairTimeout, KInv

LEMMA RemovePeerRequestKeys ==
  ASSUME KInv, NEW n \in Nodes, NEW p \in Nodes, RemovePeerRequest(n, p)
  PROVE  DevicesOK' /\ rxq' \in [Nodes -> Seq(OwnFrames)]
<1>1. \/ eng' = [eng EXCEPT ![n] = ResetPairing(@)]
      \/ eng' = eng /\ (eng[n].st = "Secured" => p # eng[n].peer)
  BY DEF RemovePeerRequest
<1> QED BY <1>1, ForgetDevice DEF KInv, RemovePeerRequest

(* A restored device has the record of every link it brings back.           *)
LEMMA RebootKeys ==
  ASSUME KInv, NEW n \in Nodes, Reboot(n)
  PROVE  DevicesOK' /\ rxq' \in [Nodes -> Seq(OwnFrames)]
<1>1. TypeOK /\ DevicesOK
  BY DEF KInv
<1>2. PICK K \in SUBSET PersistedPeers(n) : Restore(n, NewEngine, K)
  BY DEF Reboot
<1>3. \A p \in K : p \in Nodes /\ rec[n][p] # None
  BY DEF PersistedPeers
<1>4. /\ \A i \in Nodes \ {n} : rec'[i] = rec[i]
      /\ \A p \in K : rec'[n][p] = rec[n][p]
  <2>1. rec' \in ErasePairs(n, PersistedPeers(n) \ K)
    BY <1>2 DEF Restore
  <2>2. PICK D \in SUBSET (PersistedPeers(n) \ K) :
          rec' = [rec EXCEPT ![n] = [p \in Nodes |-> IF p \in D THEN None ELSE rec[n][p]]]
    BY <2>1 DEF ErasePairs
  <2> QED BY <2>2, <1>1, <1>3 DEF TypeOK
<1>5. /\ \A i \in Nodes \ {n} : radio'[i] = radio[i]
      /\ \A p \in K : radio'[n][p].hw = rec[n][p]
  BY <1>1, <1>2, <1>3 DEF Restore, TypeOK
<1>6. CASE eng' = [eng EXCEPT ![n] = NewEngine]
  <2>1. OnlyAt(n) /\ eng'[n] = NewEngine
    BY <1>1, <1>4, <1>5, <1>6 DEF OnlyAt, TypeOK
  <2>2. LocalOK(n, eng'[n], radio'[n], rec'[n])
    BY <2>1 DEF LocalOK, NewEngine
  <2>3. DevicesOK'
    BY <1>1, <2>1, <2>2, DeviceStep
  <2> QED BY <2>3 DEF Reboot, KInv
<1>7. ASSUME NEW p \in K,
             eng' = [eng EXCEPT ![n] = [NewEngine EXCEPT !.st = "Secured", !.phase = "Idle",
                                          !.peer = p, !.lmk = rec[n][p],
                                          !.corr = 0, !.nonce = NoNonce]]
      PROVE  DevicesOK' /\ rxq' \in [Nodes -> Seq(OwnFrames)]
  <2>1. /\ OnlyAt(n) /\ eng'[n].st = "Secured"
        /\ eng'[n].peer = p /\ eng'[n].lmk = rec[n][p]
    BY <1>1, <1>4, <1>5, <1>7 DEF OnlyAt, TypeOK, NewEngine
  <2>2. LocalOK(n, eng'[n], radio'[n], rec'[n])
    BY <2>1, <1>3, <1>4, <1>5 DEF LocalOK
  <2>3. DevicesOK'
    BY <1>1, <2>1, <2>2, DeviceStep
  <2> QED BY <2>3 DEF Reboot, KInv
<1> QED BY <1>2, <1>6, <1>7 DEF Restore

LEMMA TickDiscoveryKeys ==
  ASSUME KInv, NEW s \in Slaves, TickDiscovery(s)
  PROVE  DevicesOK' /\ rxq' \in [Nodes -> Seq(OwnFrames)]
<1> DEFINE f == Frame("Discovery", s, beacons[s] + 1, NoNonce, Plain)
<1>1. beacons[s] + 1 \in CorrIds
  <2>1. beacons[s] \in 0 .. MaxBeacons /\ beacons[s] < MaxBeacons
    BY DEF KInv, TypeOK, TickDiscovery
  <2> QED BY <2>1, Bounds
<1>2. f \in Frames /\ f.type = "Discovery"
  BY <1>1, FrameResult DEF Entries, Nodes, Frame
<1>3. f \in OwnFrames
  BY <1>2, OwnFrameResult
<1> HIDE DEF f
<1>4. \A n \in Nodes : rxq[n] \in Seq(OwnFrames) /\ Enqueue(rxq[n], f) \in Seq(OwnFrames)
  BY <1>3, EnqueueResult DEF KInv
<1>5. PICK H \in SUBSET Masters :
        rxq' = [n \in Nodes |-> IF n \in H THEN Enqueue(rxq[n], f) ELSE rxq[n]]
  BY DEF TickDiscovery, f
<1> QED BY <1>4, <1>5 DEF TickDiscovery, KInv, DevicesOK

LEMMA OnDiscoveryKeys ==
  ASSUME KInv, NEW m \in Masters, OnDiscovery(m)
  PROVE  DevicesOK' /\ rxq' \in [Nodes -> Seq(OwnFrames)]
<1>1. m \in Nodes /\ rxq[m] # <<>>
  BY DEF OnDiscovery, HeadIs, Nodes
<1>2. RequestPair(m, Head(rxq[m]).src, Head(rxq[m]).corr, Pop(m))
  BY DEF OnDiscovery
<1> QED BY <1>1, <1>2, HeadOwnFrame, RequestPairKeys

LEMMA IgnoreFrameKeys ==
  ASSUME KInv, NEW n \in Nodes, IgnoreFrame(n)
  PROVE  DevicesOK' /\ rxq' \in [Nodes -> Seq(OwnFrames)]
  BY HeadOwnFrame DEF IgnoreFrame, KInv, DevicesOK

LEMMA InitKeys == Init => KInv
<1> SUFFICES ASSUME Init PROVE KInv
  OBVIOUS
<1>1. \A n \in Nodes : LocalOK(n, eng[n], radio[n], rec[n])
  BY DEF Init, NewEngine, LocalOK
<1>2. rxq \in [Nodes -> Seq(OwnFrames)]
  BY DEF Init
<1> QED BY <1>1, <1>2, InitType DEF KInv, DevicesOK

LEMMA NextKeys == ~Reinits /\ KInv /\ [Next]_vars => KInv'
<1> SUFFICES ASSUME ~Reinits, KInv, [Next]_vars
             PROVE  DevicesOK' /\ rxq' \in [Nodes -> Seq(OwnFrames)]
  BY NextType DEF KInv
<1> DEFINE Goal == DevicesOK' /\ rxq' \in [Nodes -> Seq(OwnFrames)]
<1>1. CASE UNCHANGED vars
  BY <1>1 DEF vars, KInv, DevicesOK
<1>2. ASSUME NEW m \in Masters, NEW s \in Slaves, NEW c \in CorrIds, PairRequest(m, s, c)
      PROVE  Goal
  BY <1>2, RequestPairKeys DEF PairRequest, KInv, Nodes
<1>3. ASSUME NEW m \in Masters, NEW s \in Slaves, NEW c \in CorrIds, UnpairRequest(m, s, c)
      PROVE  Goal
  BY <1>3, UnpairRequestKeys
<1>4. ASSUME NEW s \in Slaves, TickDiscovery(s) PROVE Goal
  BY <1>4, TickDiscoveryKeys
<1>5. ASSUME NEW n \in Nodes, HandleFrame(n) PROVE Goal
  BY <1>5, OnDiscoveryKeys, OnPairInitKeys, OnPairInitAckKeys, OnPairConfirmKeys,
     OnPairConfirmAckKeys, OnPairBusyKeys, OnUnpairRequestKeys, OnUnpairAckKeys, IgnoreFrameKeys
     DEF HandleFrame
<1>6. ASSUME NEW n \in Nodes, TickTimer(n) PROVE Goal
  BY <1>6, TickSecureGuardKeys, TickPairTimeoutKeys, TickUnpairTimeoutKeys,
     TickDeferredCleanupKeys DEF TickTimer
<1>7. ASSUME NEW n \in Nodes, Reboot(n) \/ HardReinit(n) PROVE Goal
  BY <1>7, RebootKeys DEF HardReinit
<1>8. ASSUME NEW n \in Nodes, NEW p \in Nodes, RemovePeerRequest(n, p) PROVE Goal
  BY <1>8, RemovePeerRequestKeys
<1> QED BY <1>1, <1>2, <1>3, <1>4, <1>5, <1>6, <1>7, <1>8 DEF Next

LEMMA KInvImplies == KInv => SecuredIsPersisted /\ SlaveKeysAgree
  BY DEF KInv, DevicesOK, LocalOK, SecuredIsPersisted, SlaveKeysAgree, Nodes

(* A device that reports itself paired has a flash record for the peer it   *)
(* reports: no failed write, erase, send or insertion and no restart leaves *)
(* a paired state that the next restart would forget.  hardReinitRadio is   *)
(* excluded: it can restore nothing and keep a paired engine.               *)
THEOREM PairedHasRecord == Spec => [](~Reinits => SecuredIsPersisted)
<1>1. Init => (~Reinits => KInv)
  BY InitKeys
<1>2. (~Reinits => KInv) /\ [Next]_vars => (~Reinits => KInv)'
  BY NextKeys
<1>3. (~Reinits => KInv) => (~Reinits => SecuredIsPersisted)
  BY KInvImplies
<1> QED BY <1>1, <1>2, <1>3, PTL DEF Spec

(* A paired slave's flash record, hardware entry and engine key are one,    *)
(* with any number of masters pairing it at once: onPairConfirm installs    *)
(* the key of the sender and persists it for the peer, and the two are the  *)
(* same device.                                                             *)
THEOREM PairedSlaveHasOneKey == Spec => [](~Reinits => SlaveKeysAgree)
<1>1. Init => (~Reinits => KInv)
  BY InitKeys
<1>2. (~Reinits => KInv) /\ [Next]_vars => (~Reinits => KInv)'
  BY NextKeys
<1>3. (~Reinits => KInv) => (~Reinits => SlaveKeysAgree)
  BY KInvImplies
<1> QED BY <1>1, <1>2, <1>3, PTL DEF Spec

-----------------------------------------------------------------------------
(* A master commits after its slave.  onPairConfirmAck compares neither the *)
(* sender nor the nonce, so the order rests on three facts about what is in *)
(* flight: a handshake has at most one PairConfirm, an acknowledgement that *)
(* a waiting master can still take was encrypted with the key of this       *)
(* handshake, which its sender had saved, and older acknowledgements stand  *)
(* before the PairInitAck in the master's queue, so that they are gone when *)
(* it installs the next key.  First the queues.                             *)

(* The frames in a queue.                                                   *)
Held(q) == {q[i] : i \in 1 .. Len(q)}

(* The confirmation of the handshake that m started with the nonce y.       *)
IsConfirm(f, m, y) == f.type = "PairConfirm" /\ f.src = m /\ f.nonce = y

(* A handshake is confirmed once.                                           *)
Once(q) == \A i, j \in 1 .. Len(q) :
  q[i].type = "PairConfirm" /\ IsConfirm(q[j], q[i].src, q[i].nonce) => i = j

(* No PairConfirmAck stands behind the answer to the initiation with x.     *)
NoAckAfter(q, x) == \A i, j \in 1 .. Len(q) :
  i < j /\ q[i].type = "PairInitAck" /\ q[i].nonce = x => q[j].type # "PairConfirmAck"

(* Taking the head of a queue keeps both facts, and leaves neither a second *)
(* confirmation nor an acknowledgement older than the initiation answered.  *)
LEMMA TailQueue ==
  ASSUME NEW S, NEW q \in Seq(S), q # <<>>
  PROVE  /\ Held(Tail(q)) \subseteq Held(q) /\ Head(q) \in Held(q)
         /\ Once(q) => Once(Tail(q))
         /\ Once(q) /\ Head(q).type = "PairConfirm" =>
              \A g \in Held(Tail(q)) : ~IsConfirm(g, Head(q).src, Head(q).nonce)
         /\ \A x : NoAckAfter(q, x) => NoAckAfter(Tail(q), x)
         /\ \A x : NoAckAfter(q, x) /\ Head(q).type = "PairInitAck" /\ Head(q).nonce = x =>
              \A g \in Held(Tail(q)) : g.type # "PairConfirmAck"
<1>1. /\ Len(q) \in Nat \ {0} /\ Len(Tail(q)) = Len(q) - 1 /\ Head(q) = q[1]
      /\ \A i \in 1 .. Len(Tail(q)) : Tail(q)[i] = q[i + 1]
  OBVIOUS
<1> DEFINE r == Tail(q)
<1>2. /\ Len(r) = Len(q) - 1 /\ \A i \in 1 .. Len(r) : r[i] = q[i + 1]
  BY <1>1
<1> HIDE DEF r
<1>3. \A i \in 1 .. Len(r) : i \in Nat /\ i + 1 \in 1 .. Len(q) /\ i + 1 # 1 /\ 1 < i + 1
  BY <1>1, <1>2
<1>4. 1 \in 1 .. Len(q)
  BY <1>1
<1>5. Held(r) \subseteq Held(q) /\ Head(q) \in Held(q)
  BY <1>1, <1>2, <1>3, <1>4 DEF Held
<1>6. ASSUME Once(q) PROVE Once(r)
  <2>1. SUFFICES ASSUME NEW i \in 1 .. Len(r), NEW j \in 1 .. Len(r), r[i].type = "PairConfirm",
                        IsConfirm(r[j], r[i].src, r[i].nonce)
                 PROVE  i = j
    BY DEF Once
  <2>2. i + 1 = j + 1
    BY <1>2, <1>3, <1>6, <2>1 DEF Once
  <2> QED BY <2>2, <1>3
<1>7. ASSUME Once(q), Head(q).type = "PairConfirm", NEW g \in Held(r)
      PROVE  ~IsConfirm(g, Head(q).src, Head(q).nonce)
  <2>1. PICK i \in 1 .. Len(r) : g = r[i]
    BY <1>7 DEF Held
  <2>2. g = q[i + 1] /\ i + 1 \in 1 .. Len(q) /\ i + 1 # 1
    BY <2>1, <1>2, <1>3
  <2> QED BY <2>2, <1>1, <1>4, <1>7 DEF Once
<1>8. ASSUME NEW x, NoAckAfter(q, x) PROVE NoAckAfter(r, x)
  <2>1. SUFFICES ASSUME NEW i \in 1 .. Len(r), NEW j \in 1 .. Len(r), i < j,
                        r[i].type = "PairInitAck", r[i].nonce = x
                 PROVE  r[j].type # "PairConfirmAck"
    BY DEF NoAckAfter
  <2>2. i + 1 < j + 1
    BY <1>3, <2>1
  <2> QED BY <1>2, <1>3, <1>8, <2>1, <2>2 DEF NoAckAfter
<1>9. ASSUME NEW x, NoAckAfter(q, x), Head(q).type = "PairInitAck", Head(q).nonce = x,
             NEW g \in Held(r)
      PROVE  g.type # "PairConfirmAck"
  <2>1. PICK i \in 1 .. Len(r) : g = r[i]
    BY <1>9 DEF Held
  <2>2. g = q[i + 1] /\ i + 1 \in 1 .. Len(q) /\ 1 < i + 1
    BY <2>1, <1>2, <1>3
  <2> QED BY <2>2, <1>1, <1>4, <1>9 DEF NoAckAfter
<1> QED BY <1>5, <1>6, <1>7, <1>8, <1>9 DEF r

(* So does appending a frame, unless it is a second confirmation or an      *)
(* acknowledgement.                                                         *)
LEMMA AppendQueue ==
  ASSUME NEW S, NEW q \in Seq(S), NEW f \in S
  PROVE  /\ Held(Append(q, f)) \subseteq Held(q) \cup {f}
         /\ /\ Once(q)
            /\ f.type = "PairConfirm" => \A g \in Held(q) : ~IsConfirm(g, f.src, f.nonce)
            => Once(Append(q, f))
         /\ \A x : NoAckAfter(q, x) /\ f.type # "PairConfirmAck" => NoAckAfter(Append(q, f), x)
<1> DEFINE r == Append(q, f)
<1>1. /\ Len(q) \in Nat /\ Len(r) = Len(q) + 1 /\ r[Len(q) + 1] = f
      /\ \A i \in 1 .. Len(q) : r[i] = q[i]
  OBVIOUS
<1> HIDE DEF r
<1>2. \A i \in 1 .. Len(r) : i \in 1 .. Len(q) \/ i = Len(r)
  BY <1>1
<1>3. Held(r) \subseteq Held(q) \cup {f}
  BY <1>1, <1>2 DEF Held
<1>4. ASSUME Once(q), f.type = "PairConfirm" => \A g \in Held(q) : ~IsConfirm(g, f.src, f.nonce)
      PROVE  Once(r)
  <2>1. SUFFICES ASSUME NEW i \in 1 .. Len(r), NEW j \in 1 .. Len(r), r[i].type = "PairConfirm",
                        IsConfirm(r[j], r[i].src, r[i].nonce)
                 PROVE  i = j
    BY DEF Once
  <2>2. CASE i \in 1 .. Len(q) /\ j \in 1 .. Len(q)
    BY <2>1, <2>2, <1>1, <1>4 DEF Once
  <2>3. CASE i = Len(r) /\ j \in 1 .. Len(q)
    <3>1. r[i] = f /\ r[j] = q[j] /\ q[j] \in Held(q)
      BY <2>3, <1>1 DEF Held
    <3> QED BY <3>1, <2>1, <1>4
  <2>4. CASE j = Len(r) /\ i \in 1 .. Len(q)
    <3>1. r[j] = f /\ r[i] = q[i] /\ q[i] \in Held(q)
      BY <2>4, <1>1 DEF Held
    <3>2. f.type = "PairConfirm" /\ IsConfirm(q[i], f.src, f.nonce)
      BY <3>1, <2>1 DEF IsConfirm
    <3> QED BY <3>1, <3>2, <1>4
  <2> QED BY <1>2, <2>2, <2>3, <2>4
<1>5. ASSUME NEW x, NoAckAfter(q, x), f.type # "PairConfirmAck" PROVE NoAckAfter(r, x)
  <2>1. SUFFICES ASSUME NEW i \in 1 .. Len(r), NEW j \in 1 .. Len(r), i < j,
                        r[i].type = "PairInitAck", r[i].nonce = x
                 PROVE  r[j].type # "PairConfirmAck"
    BY DEF NoAckAfter
  <2>2. i \in 1 .. Len(q)
    BY <2>1, <1>1
  <2>3. CASE j \in 1 .. Len(q)
    BY <2>1, <2>2, <2>3, <1>1, <1>5 DEF NoAckAfter
  <2>4. CASE j = Len(r)
    BY <2>4, <1>1, <1>5
  <2> QED BY <1>2, <2>3, <2>4
<1> QED BY <1>3, <1>4, <1>5 DEF r

(* enqueue_control_rx does both: a full queue drops its oldest frame.       *)
LEMMA EnqueueQueue ==
  ASSUME NEW S, NEW q \in Seq(S), NEW f \in S
  PROVE  /\ Held(Enqueue(q, f)) \subseteq Held(q) \cup {f}
         /\ /\ Once(q)
            /\ f.type = "PairConfirm" => \A g \in Held(q) : ~IsConfirm(g, f.src, f.nonce)
            => Once(Enqueue(q, f))
         /\ \A x : NoAckAfter(q, x) /\ f.type # "PairConfirmAck" => NoAckAfter(Enqueue(q, f), x)
<1>1. CASE Len(q) >= QMax
  <2>1. q # <<>> /\ Tail(q) \in Seq(S)
    BY <1>1, Bounds
  <2>2. Enqueue(q, f) = Append(Tail(q), f)
    BY <1>1 DEF Enqueue
  <2>3. /\ Held(Tail(q)) \subseteq Held(q)
        /\ Once(q) => Once(Tail(q))
        /\ \A x : NoAckAfter(q, x) => NoAckAfter(Tail(q), x)
    BY <2>1, TailQueue
  <2>4. /\ Held(Append(Tail(q), f)) \subseteq Held(Tail(q)) \cup {f}
        /\ \A x : NoAckAfter(Tail(q), x) /\ f.type # "PairConfirmAck"
                    => NoAckAfter(Append(Tail(q), f), x)
    BY <2>1, AppendQueue
  <2>5. /\ Once(Tail(q))
        /\ f.type = "PairConfirm" => \A g \in Held(Tail(q)) : ~IsConfirm(g, f.src, f.nonce)
        => Once(Append(Tail(q), f))
    BY <2>1, AppendQueue
  <2> QED BY <2>2, <2>3, <2>4, <2>5
<1>2. CASE ~(Len(q) >= QMax)
  <2>1. Enqueue(q, f) = Append(q, f)
    BY <1>2 DEF Enqueue
  <2> QED BY <2>1, AppendQueue
<1> QED BY <1>1, <1>2

-----------------------------------------------------------------------------
(* The invariant, for a master and for each frame in flight.                *)

(* Master m is in this phase of a handshake.                                *)
Waits(m, ph) == eng[m].st = "Pairing" /\ eng[m].phase = ph

(* A master never defers a cleanup; it runs its newest attempt, whose key   *)
(* is the one derived for its peer; and every record it has was saved by    *)
(* the slave and is older than a handshake still running.                   *)
MasterOK(m) ==
  /\ eng[m].deferredPeer = NoNode
  /\ eng[m].unpairPending => eng[m].st # "Pairing"
  /\ eng[m].st = "Pairing" => eng[m].nonce = <<m, attempts[m]>> /\ eng[m].peer \in Slaves
  /\ Waits(m, "MasterSecureGuard") \/ Waits(m, "MasterWaitConfirmAck") =>
       eng[m].lmk = <<m, eng[m].peer, eng[m].nonce>>
  /\ \A p \in Nodes : rec[m][p] # None =>
       /\ rec[m][p] \in saved
       /\ rec[m][p][3][2] <= attempts[m]
       /\ eng[m].st = "Pairing" => rec[m][p][3][2] < attempts[m]

(* An initiation of the running attempt went to the peer of that attempt.   *)
PairInitOK(n, f) == f.type = "PairInit" =>
  /\ f.nonce[1] = f.src /\ f.nonce[2] <= attempts[f.src]
  /\ eng[f.src].st = "Pairing" /\ f.nonce = eng[f.src].nonce => n = eng[f.src].peer

(* The answer to the initiation of the running attempt comes from its peer. *)
InitAckOK(f) == f.type = "PairInitAck" =>
  /\ f.nonce[2] <= attempts[f.nonce[1]]
  /\ eng[f.nonce[1]].st = "Pairing" /\ f.nonce = eng[f.nonce[1]].nonce =>
       f.src = eng[f.nonce[1]].peer

(* A confirmation of m's handshake with x in flight to n: m has no record   *)
(* with its key, and the key is in m's table for n only while m still waits *)
(* for the acknowledgement.                                                 *)
ConfirmOK(n, f) == f.type = "PairConfirm" =>
  /\ n \in Slaves
  /\ f.nonce[1] = f.src /\ f.nonce[2] <= attempts[f.src]
  /\ Waits(f.src, "MasterWaitInitAck") \/ Waits(f.src, "MasterSecureGuard") =>
       f.nonce # eng[f.src].nonce
  /\ rec[f.src][n] # <<f.src, n, f.nonce>>
  /\ <<f.src, n, f.nonce>> \in {radio[f.src][n].hw, radio[f.src][n].cache} =>
       /\ Waits(f.src, "MasterWaitConfirmAck")
       /\ eng[f.src].peer = n /\ eng[f.src].nonce = f.nonce

(* An acknowledgement carries a key its sender saved, after the             *)
(* confirmation left the queue; a master that waits for one has that very   *)
(* key.                                                                     *)
ConfirmAckOK(m, f) == f.type = "PairConfirmAck" =>
  /\ m \in Masters
  /\ f.key \in saved /\ f.key = <<m, f.src, f.key[3]>>
  /\ ~Waits(m, "MasterSecureGuard")
  /\ Waits(m, "MasterWaitConfirmAck") => f.key = eng[m].lmk
  /\ \A g \in Held(rxq[f.src]) : ~IsConfirm(g, m, f.key[3])

(* Only masters send unpair requests, and only to slaves.                   *)
UnpairOK(n, f) == f.type = "UnpairRequest" => n \notin Masters

FrameOK(n, f) == /\ PairInitOK(n, f) /\ InitAckOK(f) /\ ConfirmOK(n, f)
                 /\ ConfirmAckOK(n, f) /\ UnpairOK(n, f)

(* The queues: while a master waits for the answer to its initiation, no    *)
(* acknowledgement of an earlier handshake stands behind that answer.       *)
QueueOK(n) == /\ Once(rxq[n])
              /\ n \in Masters /\ Waits(n, "MasterWaitInitAck") => NoAckAfter(rxq[n], eng[n].nonce)

CInv == /\ TypeOK
        /\ \A m \in Masters : MasterOK(m)
        /\ \A n \in Nodes : QueueOK(n)
        /\ \A n \in Nodes : \A f \in Held(rxq[n]) : FrameOK(n, f)

-----------------------------------------------------------------------------

(* What is in a queue is a frame.                                           *)
LEMMA HeldFrames ==
  /\ TypeOK => \A n \in Nodes : rxq[n] \in Seq(Frames) /\ \A f \in Held(rxq[n]) : f \in Frames
  /\ TypeOK' => \A n \in Nodes : \A f \in Held(rxq'[n]) : f \in Frames
<1>1. ASSUME NEW q \in Seq(Frames) PROVE \A f \in Held(q) : f \in Frames
  BY DEF Held
<1> QED BY <1>1 DEF TypeOK

(* What the type of a frame says of its fields.                             *)
LEMMA FrameParts ==
  ASSUME NEW f \in Frames
  PROVE  /\ f.src \in Nodes /\ f.corr \in CorrIds /\ f.key \in Entries
         /\ f.type \in {"PairInit", "PairConfirm"} => f.src \in Masters /\ f.nonce \in Nonces
         /\ f.type = "PairInitAck" => f.src \in Slaves /\ f.nonce \in Nonces
         /\ f.type = "Discovery" => f.src \in Slaves
         /\ f.nonce \in Nonces => f.nonce[1] \in Masters /\ f.nonce[2] \in Nat
  BY DEF Frames, Nonces

(* The frames that say something of the handshakes of master m.             *)
About(m, n, f) == \/ f.type \in {"PairInit", "PairConfirm"} /\ f.src = m
                  \/ f.type = "PairInitAck" /\ f.nonce[1] = m
                  \/ f.type = "PairConfirmAck" /\ n = m

(* A step that changes at most one master keeps what frames say of others.  *)
LEMMA MasterStep ==
  ASSUME CInv, TypeOK', NEW m \in Masters, OnlyAt(m), saved' = saved,
         \A i \in Masters \ {m} : attempts'[i] = attempts[i],
         MasterOK(m)', \A n \in Nodes : QueueOK(n)',
         \A n \in Nodes : \A f \in Held(rxq'[n]) :
           (f \in Held(rxq[n]) /\ ~About(m, n, f)) \/ FrameOK(n, f)',
         \A n \in Nodes : \A f \in Held(rxq'[n]) :
           f.type = "PairConfirm" /\ f.src # m => f \in Held(rxq[n])
  PROVE  CInv'
<1>1. ASSUME NEW i \in Masters PROVE MasterOK(i)'
  <2>1. CASE i = m
    BY <2>1
  <2>2. CASE i # m
    <3>1. eng'[i] = eng[i] /\ rec'[i] = rec[i] /\ attempts'[i] = attempts[i] /\ MasterOK(i)
      BY <2>2 DEF OnlyAt, CInv, Nodes
    <3> QED BY <3>1 DEF MasterOK, Waits
  <2> QED BY <2>1, <2>2
<1>2. ASSUME NEW n \in Nodes, NEW f \in Held(rxq'[n]) PROVE FrameOK(n, f)'
  <2>1. SUFFICES ASSUME f \in Held(rxq[n]), ~About(m, n, f) PROVE FrameOK(n, f)'
    OBVIOUS
  <2>2. FrameOK(n, f) /\ f \in Frames /\ (n \in Masters \/ n \in Slaves)
    BY <2>1, HeldFrames DEF CInv, Nodes
  <2>3. ASSUME NEW i \in Masters, i # m
        PROVE  eng'[i] = eng[i] /\ rec'[i] = rec[i] /\ radio'[i] = radio[i] /\ attempts'[i] = attempts[i]
    BY <2>3 DEF OnlyAt, Nodes
  <2>4. PairInitOK(n, f)'
    BY <2>1, <2>2, <2>3, FrameParts DEF FrameOK, PairInitOK, About
  <2>5. InitAckOK(f)'
    BY <2>1, <2>2, <2>3, FrameParts DEF FrameOK, InitAckOK, About
  <2>6. ConfirmOK(n, f)'
    BY <2>1, <2>2, <2>3, FrameParts DEF FrameOK, ConfirmOK, About, Waits
  <2>7. ConfirmAckOK(n, f)'
    <3>1. SUFFICES ASSUME f.type = "PairConfirmAck" PROVE ConfirmAckOK(n, f)'
      BY DEF ConfirmAckOK
    <3>2. n \in Masters /\ n # m /\ f.src \in Nodes /\ ConfirmAckOK(n, f)
      BY <3>1, <2>1, <2>2, FrameParts DEF FrameOK, ConfirmAckOK, About
    <3>3. \A g \in Held(rxq'[f.src]) : ~IsConfirm(g, n, f.key[3])
      BY <3>1, <3>2 DEF ConfirmAckOK, IsConfirm
    <3> QED BY <3>1, <3>2, <3>3, <2>3 DEF ConfirmAckOK, Waits
  <2>8. UnpairOK(n, f)'
    BY <2>2 DEF FrameOK, UnpairOK
  <2> QED BY <2>4, <2>5, <2>6, <2>7, <2>8 DEF FrameOK
<1> QED BY <1>1, <1>2 DEF CInv

(* A step of a slave, or of nobody: the masters stand still, and what comes *)
(* into a queue is no initiation, confirmation or unpair request.           *)
LEMMA SlaveStep ==
  ASSUME CInv, TypeOK', attempts' = attempts, saved \subseteq saved',
         \A m \in Masters : eng'[m] = eng[m] /\ radio'[m] = radio[m] /\ rec'[m] = rec[m],
         \A n \in Nodes : QueueOK(n)',
         \A n \in Nodes : \A f \in Held(rxq'[n]) :
           \/ f \in Held(rxq[n])
           \/ f.type \in {"Discovery", "PairBusy", "UnpairAck"}
           \/ f.type = "PairInitAck" /\ InitAckOK(f)
           \/ f.type = "PairConfirmAck" /\ ConfirmAckOK(n, f)'
  PROVE  CInv'
<1>1. ASSUME NEW m \in Masters PROVE MasterOK(m)'
  <2>1. MasterOK(m) /\ eng'[m] = eng[m] /\ rec'[m] = rec[m]
    BY DEF CInv
  <2> QED BY <2>1 DEF MasterOK, Waits
<1>2. ASSUME NEW n \in Nodes, NEW f \in Held(rxq'[n]) PROVE FrameOK(n, f)'
  <2>1. f \in Frames
    BY HeldFrames DEF CInv
  <2>2. CASE f \in Held(rxq[n])
    <3>1. FrameOK(n, f)
      BY <2>2 DEF CInv
    <3>2. PairInitOK(n, f)' /\ InitAckOK(f)'
      BY <3>1, <2>1, FrameParts DEF FrameOK, PairInitOK, InitAckOK
    <3>3. ConfirmOK(n, f)'
      BY <3>1, <2>1, FrameParts DEF FrameOK, ConfirmOK, Waits
    <3>4. ConfirmAckOK(n, f)'
      <4>1. SUFFICES ASSUME f.type = "PairConfirmAck" PROVE ConfirmAckOK(n, f)'
        BY DEF ConfirmAckOK
      <4>2. n \in Masters /\ f.src \in Nodes /\ ConfirmAckOK(n, f)
        BY <3>1, <4>1, <2>1, FrameParts DEF FrameOK, ConfirmAckOK
      <4>3. \A g \in Held(rxq'[f.src]) : ~IsConfirm(g, n, f.key[3])
        BY <4>1, <4>2 DEF ConfirmAckOK, IsConfirm
      <4> QED BY <4>1, <4>2, <4>3 DEF ConfirmAckOK, Waits
    <3>5. UnpairOK(n, f)'
      BY <3>1 DEF FrameOK, UnpairOK
    <3> QED BY <3>2, <3>3, <3>4, <3>5 DEF FrameOK
  <2>3. CASE f.type \in {"Discovery", "PairBusy", "UnpairAck"}
    BY <2>3 DEF FrameOK, PairInitOK, InitAckOK, ConfirmOK, ConfirmAckOK, UnpairOK
  <2>4. CASE f.type = "PairInitAck" /\ InitAckOK(f)
    <3>1. InitAckOK(f)'
      BY <2>4, <2>1, FrameParts DEF InitAckOK
    <3> QED BY <3>1, <2>4 DEF FrameOK, PairInitOK, ConfirmOK, ConfirmAckOK, UnpairOK
  <2>5. CASE f.type = "PairConfirmAck" /\ ConfirmAckOK(n, f)'
    BY <2>5 DEF FrameOK, PairInitOK, InitAckOK, ConfirmOK, UnpairOK
  <2> QED BY <2>2, <2>3, <2>4, <2>5
<1> QED BY <1>1, <1>2 DEF CInv

(* A master leaves its handshake or keeps it as it is.                      *)
SameHandshake(m) == /\ eng'[m].st = eng[m].st /\ eng'[m].phase = eng[m].phase
                    /\ eng'[m].peer = eng[m].peer /\ eng'[m].nonce = eng[m].nonce
                    /\ eng'[m].lmk = eng[m].lmk /\ attempts'[m] = attempts[m]

(* Such a step keeps the invariant when no PairConfirm in flight has its    *)
(* key in the records or in the hardware afterwards.                        *)
LEMMA LeaveStep ==
  ASSUME CInv, TypeOK', NEW m \in Masters, OnlyAt(m), saved' = saved,
         \A i \in Masters \ {m} : attempts'[i] = attempts[i], attempts'[m] >= attempts[m],
         MasterOK(m)', eng'[m].st # "Pairing" \/ SameHandshake(m),
         \A n \in Nodes : Once(rxq'[n]) /\ \A x : NoAckAfter(rxq[n], x) => NoAckAfter(rxq'[n], x),
         \A n \in Nodes : \A f \in Held(rxq'[n]) :
           f \in Held(rxq[n]) \/ (f.type = "UnpairRequest" /\ n \notin Masters),
         \A n \in Nodes : \A f \in Held(rxq'[n]) :
           f.type = "PairConfirm" /\ f.src = m =>
             /\ rec'[m][n] # <<m, n, f.nonce>>
             /\ <<m, n, f.nonce>> \in {radio'[m][n].hw, radio'[m][n].cache} =>
                  /\ <<m, n, f.nonce>> \in {radio[m][n].hw, radio[m][n].cache}
                  /\ SameHandshake(m)
  PROVE  CInv'
<1>1. m \in Nodes /\ attempts[m] \in Nat /\ attempts'[m] \in Nat
  BY DEF Nodes, CInv, TypeOK
<1>2. ASSUME NEW n \in Nodes PROVE QueueOK(n)'
  <2>1. QueueOK(n)
    BY DEF CInv
  <2>2. CASE n = m
    BY <2>1, <2>2 DEF QueueOK, Waits, SameHandshake
  <2>3. CASE n # m
    <3>1. eng'[n] = eng[n]
      BY <2>3 DEF OnlyAt
    <3> QED BY <2>1, <3>1 DEF QueueOK, Waits
  <2> QED BY <2>2, <2>3
<1>3. ASSUME NEW n \in Nodes, NEW f \in Held(rxq'[n])
      PROVE  (f \in Held(rxq[n]) /\ ~About(m, n, f)) \/ FrameOK(n, f)'
  <2>1. CASE f.type = "UnpairRequest" /\ n \notin Masters
    BY <2>1 DEF FrameOK, PairInitOK, InitAckOK, ConfirmOK, ConfirmAckOK, UnpairOK
  <2>2. CASE f \in Held(rxq[n]) /\ About(m, n, f)
    <3>1. FrameOK(n, f) /\ f \in Frames
      BY <2>2, HeldFrames DEF CInv
    <3>2. PairInitOK(n, f)'
      <4>1. SUFFICES ASSUME f.type = "PairInit" PROVE PairInitOK(n, f)'
        BY DEF PairInitOK
      <4>2. f.src = m /\ PairInitOK(n, f) /\ f.nonce \in Nonces /\ f.nonce[2] \in Nat
        BY <4>1, <3>1, <2>2, FrameParts DEF FrameOK, About
      <4>3. f.nonce[2] <= attempts'[m]
        BY <4>1, <4>2, <1>1 DEF PairInitOK
      <4> QED BY <4>1, <4>2, <4>3 DEF PairInitOK, SameHandshake
    <3>3. InitAckOK(f)'
      <4>1. SUFFICES ASSUME f.type = "PairInitAck" PROVE InitAckOK(f)'
        BY DEF InitAckOK
      <4>2. f.nonce[1] = m /\ InitAckOK(f) /\ f.nonce \in Nonces /\ f.nonce[2] \in Nat
        BY <4>1, <3>1, <2>2, FrameParts DEF FrameOK, About
      <4>3. f.nonce[2] <= attempts'[m]
        BY <4>1, <4>2, <1>1 DEF InitAckOK
      <4> QED BY <4>1, <4>2, <4>3 DEF InitAckOK, SameHandshake
    <3>4. ConfirmOK(n, f)'
      <4>1. SUFFICES ASSUME f.type = "PairConfirm" PROVE ConfirmOK(n, f)'
        BY DEF ConfirmOK
      <4>2. f.src = m /\ ConfirmOK(n, f) /\ f.nonce \in Nonces /\ f.nonce[2] \in Nat
        BY <4>1, <3>1, <2>2, FrameParts DEF FrameOK, About
      <4>3. f.nonce[2] <= attempts'[m]
        BY <4>1, <4>2, <1>1 DEF ConfirmOK
      <4>4. Waits(m, "MasterWaitInitAck")' \/ Waits(m, "MasterSecureGuard")'
              => f.nonce # eng'[m].nonce
        BY <4>1, <4>2 DEF ConfirmOK, SameHandshake, Waits
      <4>5. <<m, n, f.nonce>> \in {radio'[m][n].hw, radio'[m][n].cache} =>
              /\ Waits(m, "MasterWaitConfirmAck")'
              /\ eng'[m].peer = n /\ eng'[m].nonce = f.nonce
        BY <4>1, <4>2 DEF ConfirmOK, SameHandshake, Waits
      <4> QED BY <4>1, <4>2, <4>3, <4>4, <4>5 DEF ConfirmOK
    <3>5. ConfirmAckOK(n, f)'
      <4>1. SUFFICES ASSUME f.type = "PairConfirmAck" PROVE ConfirmAckOK(n, f)'
        BY DEF ConfirmAckOK
      <4>2. n = m /\ f.src \in Nodes /\ ConfirmAckOK(m, f)
        BY <4>1, <3>1, <2>2, FrameParts DEF FrameOK, About
      <4>3. \A g \in Held(rxq'[f.src]) : ~IsConfirm(g, m, f.key[3])
        BY <4>1, <4>2 DEF ConfirmAckOK, IsConfirm
      <4> QED BY <4>1, <4>2, <4>3 DEF ConfirmAckOK, SameHandshake, Waits
    <3>6. UnpairOK(n, f)'
      BY <3>1 DEF FrameOK, UnpairOK
    <3> QED BY <3>2, <3>3, <3>4, <3>5, <3>6 DEF FrameOK
  <2> QED BY <2>1, <2>2
<1>4. \A n \in Nodes : \A f \in Held(rxq'[n]) :
        f.type = "PairConfirm" /\ f.src # m => f \in Held(rxq[n])
  OBVIOUS
<1> QED BY <1>2, <1>3, <1>4, MasterStep

(* Queues that lost frames at their heads, and nothing else.                *)
Fewer(q) == \A i \in Nodes : /\ Held(q[i]) \subseteq Held(rxq[i]) /\ Once(q[i])
                             /\ \A x : NoAckAfter(rxq[i], x) => NoAckAfter(q[i], x)

(* Untouched queues, and queues with one head taken, are such.              *)
LEMMA SameQueues == CInv => Fewer(rxq)
  BY DEF CInv, QueueOK, Fewer

LEMMA PopQueues ==
  ASSUME CInv, NEW n \in Nodes, rxq[n] # <<>>
  PROVE  /\ Pop(n) \in [Nodes -> Seq(Frames)] /\ Fewer(Pop(n))
         /\ Head(rxq[n]) \in Frames /\ FrameOK(n, Head(rxq[n]))
         /\ Head(rxq[n]).type = "PairConfirm" =>
              \A g \in Held(Pop(n)[n]) : ~IsConfirm(g, Head(rxq[n]).src, Head(rxq[n]).nonce)
         /\ \A x : /\ NoAckAfter(rxq[n], x)
                   /\ Head(rxq[n]).type = "PairInitAck" /\ Head(rxq[n]).nonce = x
                   => \A g \in Held(Pop(n)[n]) : g.type # "PairConfirmAck"
<1>1. rxq \in [Nodes -> Seq(Frames)] /\ \A i \in Nodes : Once(rxq[i])
  BY DEF CInv, TypeOK, QueueOK
<1>2. Pop(n) \in [Nodes -> Seq(Frames)] /\ Head(rxq[n]) \in Frames
  BY <1>1, PopResult
<1>3. Pop(n)[n] = Tail(rxq[n]) /\ \A i \in Nodes \ {n} : Pop(n)[i] = rxq[i]
  BY <1>1 DEF Pop
<1>4. /\ Held(Tail(rxq[n])) \subseteq Held(rxq[n]) /\ Head(rxq[n]) \in Held(rxq[n])
      /\ Once(Tail(rxq[n]))
      /\ \A x : NoAckAfter(rxq[n], x) => NoAckAfter(Tail(rxq[n]), x)
      /\ Head(rxq[n]).type = "PairConfirm" =>
           \A g \in Held(Tail(rxq[n])) : ~IsConfirm(g, Head(rxq[n]).src, Head(rxq[n]).nonce)
      /\ \A x : /\ NoAckAfter(rxq[n], x)
                /\ Head(rxq[n]).type = "PairInitAck" /\ Head(rxq[n]).nonce = x
                => \A g \in Held(Tail(rxq[n])) : g.type # "PairConfirmAck"
  BY <1>1, TailQueue
<1>5. Fewer(Pop(n))
  BY <1>1, <1>3, <1>4 DEF Fewer
<1>6. FrameOK(n, Head(rxq[n]))
  BY <1>4 DEF CInv
<1> QED BY <1>2, <1>3, <1>4, <1>5, <1>6

(* A frame that is sent reaches one queue, or none.                         *)
Delivered(t, n, p, f) == t.heard /\ Decrypts(p, n, f.key)

(* A queue that a frame is sent to: it may gain the frame, and lose its     *)
(* head.                                                                    *)
LEMMA TransmitQueues ==
  ASSUME NEW q \in [Nodes -> Seq(Frames)], NEW f \in Frames, NEW n, NEW p, NEW t,
         NEW i \in Nodes
  PROVE  /\ i # p \/ ~Delivered(t, n, p, f) => Transmit(q, t, n, p, f)[i] = q[i]
         /\ Held(Transmit(q, t, n, p, f)[i]) \subseteq Held(q[i]) \cup {f}
         /\ /\ Once(q[i])
            /\ i = p /\ f.type = "PairConfirm" => \A g \in Held(q[i]) : ~IsConfirm(g, f.src, f.nonce)
            => Once(Transmit(q, t, n, p, f)[i])
         /\ \A x : NoAckAfter(q[i], x) /\ f.type # "PairConfirmAck"
                    => NoAckAfter(Transmit(q, t, n, p, f)[i], x)
<1>1. CASE i # p \/ ~Delivered(t, n, p, f)
  <2>1. Transmit(q, t, n, p, f)[i] = q[i]
    BY <1>1 DEF Transmit, Delivered
  <2> QED BY <2>1
<1>2. CASE i = p /\ Delivered(t, n, p, f)
  <2>1. Transmit(q, t, n, p, f)[i] = Enqueue(q[i], f) /\ q[i] \in Seq(Frames)
    BY <1>2 DEF Transmit, Delivered
  <2> QED BY <2>1, <1>2, EnqueueQueue
<1> QED BY <1>1, <1>2

(* Nothing is sent and no master moves.                                     *)
LEMMA QuietStep ==
  ASSUME CInv, TypeOK', attempts' = attempts, saved \subseteq saved', Fewer(rxq'),
         \A m \in Masters : eng'[m] = eng[m] /\ radio'[m] = radio[m] /\ rec'[m] = rec[m]
  PROVE  CInv'
<1>1. ASSUME NEW n \in Nodes PROVE QueueOK(n)'
  <2>1. QueueOK(n)
    BY DEF CInv
  <2> QED BY <2>1 DEF QueueOK, Fewer, Waits
<1>2. \A n \in Nodes : \A f \in Held(rxq'[n]) : f \in Held(rxq[n])
  BY DEF Fewer
<1> QED BY <1>1, <1>2, SlaveStep

(* A slave answers.                                                         *)
LEMMA AnswerStep ==
  ASSUME CInv, TypeOK', NEW s \in Slaves, OnlyAt(s), attempts' = attempts, saved \subseteq saved',
         NEW q \in [Nodes -> Seq(Frames)], Fewer(q), NEW p \in Nodes, NEW t, NEW f \in Frames,
         rxq' = Transmit(q, t, s, p, f),
         \/ f.type \in {"PairBusy", "UnpairAck"}
         \/ f.type = "PairInitAck" /\ InitAckOK(f)
         \/ /\ f.type = "PairConfirmAck"
            /\ Delivered(t, s, p, f) => Waits(p, "MasterWaitConfirmAck") /\ ConfirmAckOK(p, f)'
  PROVE  CInv'
<1>1. \A m \in Masters : eng'[m] = eng[m] /\ radio'[m] = radio[m] /\ rec'[m] = rec[m]
  BY Roles DEF OnlyAt, Nodes
<1>2. ASSUME NEW n \in Nodes
      PROVE  /\ Once(rxq'[n])
             /\ \A x : NoAckAfter(rxq[n], x) /\ ~Waits(n, "MasterWaitConfirmAck")
                          => NoAckAfter(rxq'[n], x)
             /\ Held(rxq'[n]) \subseteq Held(rxq[n]) \cup {f}
             /\ n # p \/ ~Delivered(t, s, p, f) => Held(rxq'[n]) \subseteq Held(rxq[n])
  <2>1. /\ Held(q[n]) \subseteq Held(rxq[n]) /\ Once(q[n])
        /\ \A x : NoAckAfter(rxq[n], x) => NoAckAfter(q[n], x)
    BY DEF Fewer
  <2>2. /\ n # p \/ ~Delivered(t, s, p, f) => rxq'[n] = q[n]
        /\ Held(rxq'[n]) \subseteq Held(q[n]) \cup {f}
        /\ Once(q[n]) => Once(rxq'[n])
        /\ \A x : NoAckAfter(q[n], x) /\ f.type # "PairConfirmAck" => NoAckAfter(rxq'[n], x)
    <3>1. f.type # "PairConfirm"
      OBVIOUS
    <3> DEFINE Q == Transmit(q, t, s, p, f)
    <3>2. n # p \/ ~Delivered(t, s, p, f) => Q[n] = q[n]
      BY TransmitQueues
    <3>3. Held(Q[n]) \subseteq Held(q[n]) \cup {f}
      BY TransmitQueues
    <3>4. Once(q[n]) => Once(Q[n])
      BY <3>1, TransmitQueues
    <3>5. \A x : NoAckAfter(q[n], x) /\ f.type # "PairConfirmAck" => NoAckAfter(Q[n], x)
      BY TransmitQueues
    <3> HIDE DEF Q
    <3>6. rxq' = Q
      BY DEF Q
    <3> QED BY <3>2, <3>3, <3>4, <3>5, <3>6
  <2> QED BY <2>1, <2>2
<1>3. ASSUME NEW n \in Nodes PROVE QueueOK(n)'
  <2>1. QueueOK(n)
    BY DEF CInv
  <2> QED BY <2>1, <1>1, <1>2 DEF QueueOK, Waits
<1>4. ASSUME NEW n \in Nodes, NEW g \in Held(rxq'[n])
      PROVE  \/ g \in Held(rxq[n])
             \/ g.type \in {"Discovery", "PairBusy", "UnpairAck"}
             \/ g.type = "PairInitAck" /\ InitAckOK(g)
             \/ g.type = "PairConfirmAck" /\ ConfirmAckOK(n, g)'
  BY <1>2
<1> QED BY <1>1, <1>3, <1>4, SlaveStep

-----------------------------------------------------------------------------
(* The steps of slaves.                                                     *)

(* A frame goes out with the key of the entry it was sent through.          *)
LEMMA SendKey ==
  ASSUME NEW r \in RadioTables, NEW p \in Nodes, NEW t \in Send(r, p), r[p].hw # None
  PROVE  t.key = r[p].hw
<1>1. PICK a \in {[ok |-> TRUE, radio |-> r]}, o \in {"refused", "lost", "heard"} :
        t = [ok |-> a.ok /\ o # "refused", heard |-> a.ok /\ o = "heard",
             radio |-> a.radio, key |-> a.radio[p].hw]
  BY DEF Send
<1> QED BY <1>1

(* A slave that gives up sends nothing and saves nothing.                   *)
LEMMA FailQuiet ==
  ASSUME CInv, TypeOK', NEW s \in Slaves, NEW p \in Nodes, NEW e \in Engines,
         NEW r \in RadioTables, FailPairing(s, e, r, p), Fewer(rxq'),
         \A i \in Nodes \ {s} : rec'[i] = rec[i], attempts' = attempts, saved \subseteq saved'
  PROVE  CInv'
<1>1. s \in Nodes /\ s \notin Masters /\ TypeOK
  BY Roles DEF Nodes, CInv
<1>2. \A i \in Nodes \ {s} : eng'[i] = eng[i] /\ radio'[i] = radio[i]
  BY <1>1, FailPairingDevice
<1>3. \A m \in Masters : eng'[m] = eng[m] /\ radio'[m] = radio[m] /\ rec'[m] = rec[m]
  BY <1>1, <1>2 DEF Nodes
<1> QED BY <1>3, QuietStep

(* A slave answers an initiation from its sender: a busy reply or the       *)
(* answer that the initiation promised.                                     *)
LEMMA OnPairInitOrder ==
  ASSUME CInv, NEW s \in Slaves, OnPairInit(s)
  PROVE  CInv'
<1> DEFINE f == Head(rxq[s])
           e == [eng[s] EXCEPT !.st = "Pairing", !.phase = "SlaveWaitConfirm",
                               !.peer = f.src, !.corr = f.corr, !.nonce = f.nonce]
           k == DeriveLmk(f.src, s, f.nonce)
           e2 == [e EXCEPT !.lmk = k]
           f2(t) == Frame("PairInitAck", s, f.corr, f.nonce, t.key)
           f3(t) == Frame("PairBusy", s, f.corr, NoNonce, t.key)
<1>1. s \in Nodes /\ rxq[s] # <<>> /\ f.type = "PairInit" /\ TypeOK /\ TypeOK'
  BY OnPairInitType DEF OnPairInit, HeadIs, Nodes, CInv
<1>2. /\ f \in Frames /\ PairInitOK(s, f)
      /\ Pop(s) \in [Nodes -> Seq(Frames)] /\ Fewer(Pop(s))
  BY <1>1, PopQueues DEF FrameOK
<1>3. /\ f.src \in Masters /\ f.src \in Nodes /\ f.nonce \in Nonces /\ f.corr \in CorrIds
      /\ Plain \in Entries /\ eng[s] \in Engines /\ radio[s] \in RadioTables
  BY <1>1, <1>2, FrameParts DEF Nodes, TypeOK, Entries
<1>4. k \in Keys /\ k \in Entries
  BY <1>3 DEF DeriveLmk, Keys, Entries
<1>5. e \in Engines /\ e2 \in Engines
  BY <1>3, <1>4, Bounds DEF Engines, LinkStates, PairPhases
<1>6. rec' = rec /\ attempts' = attempts /\ saved' = saved
  BY DEF OnPairInit
<1>7. BusyReject(s, f) \/ Prepare(s, f)
  BY DEF OnPairInit
<1>8. CASE BusyReject(s, f)
  <2>1. PICK a \in AddPeer(radio[s], f.src, Plain) : \E t \in Send(a.radio, f.src) :
          /\ radio' = [radio EXCEPT ![s] = t.radio]
          /\ rxq' = Transmit(Pop(s), t, s, f.src, f3(t))
    BY <1>8 DEF BusyReject
  <2>2. PICK t \in Send(a.radio, f.src) :
          /\ radio' = [radio EXCEPT ![s] = t.radio]
          /\ rxq' = Transmit(Pop(s), t, s, f.src, f3(t))
    BY <2>1
  <2>3. a.radio \in RadioTables
    BY <1>3, AddPeerResult
  <2>4. f3(t) \in Frames /\ f3(t).type = "PairBusy"
    BY <2>3, <1>1, <1>3, SendResult, FrameResult DEF Frame
  <2>5. OnlyAt(s)
    BY <1>1, <1>6, <1>8, <2>2 DEF OnlyAt, BusyReject, TypeOK
  <2> HIDE DEF f, f3
  <2> QED BY <2>2, <2>4, <2>5, <1>1, <1>2, <1>3, <1>6, AnswerStep
<1>9. CASE Prepare(s, f)
  <2>1. PICK a \in AddPeer(radio[s], f.src, Plain) :
          \/ FailPairing(s, e, a.radio, f.src) /\ rxq' = Pop(s)
          \/ \E t \in Send(a.radio, f.src) :
               \/ FailPairing(s, e, t.radio, f.src) /\ rxq' = Pop(s)
               \/ /\ rxq' = Transmit(Pop(s), t, s, f.src, f2(t))
                  /\ \E b \in AddPeer(RemovePeer(t.radio, f.src), f.src, k) :
                       \/ FailPairing(s, e2, b.radio, f.src)
                       \/ /\ eng' = [eng EXCEPT ![s] = e2]
                          /\ radio' = [radio EXCEPT ![s] = b.radio]
    BY <1>9 DEF Prepare
  <2>2. a.radio \in RadioTables
    BY <1>3, AddPeerResult
  <2> HIDE DEF e, e2, k
  <2>3. ASSUME NEW r \in RadioTables, FailPairing(s, e, r, f.src), rxq' = Pop(s)
        PROVE  CInv'
    BY <2>3, <1>1, <1>2, <1>3, <1>5, <1>6, FailQuiet
  <2>4. ASSUME NEW t \in Send(a.radio, f.src),
               NEW b \in AddPeer(RemovePeer(t.radio, f.src), f.src, k),
               rxq' = Transmit(Pop(s), t, s, f.src, f2(t)),
               \/ FailPairing(s, e2, b.radio, f.src)
               \/ eng' = [eng EXCEPT ![s] = e2] /\ radio' = [radio EXCEPT ![s] = b.radio]
        PROVE  CInv'
    <3>1. t.radio \in RadioTables /\ t.key \in Entries
      BY <2>2, <1>3, SendResult
    <3>2. b.radio \in RadioTables
      BY <3>1, <1>3, <1>4, RemovePeerResult, AddPeerResult
    <3>3. OnlyAt(s)
      BY <2>4, <3>2, <1>1, <1>3, <1>5, <1>6, FailPairingDevice DEF OnlyAt, TypeOK
    <3>4. /\ f2(t) \in Frames /\ f2(t).type = "PairInitAck"
          /\ f2(t).src = s /\ f2(t).nonce = f.nonce
      BY <3>1, <1>1, <1>3, FrameResult DEF Frame
    <3>5. InitAckOK(f2(t))
      BY <3>4, <1>1, <1>2, <1>3 DEF InitAckOK, PairInitOK
    <3> HIDE DEF f, f2
    <3> QED BY <2>4, <3>3, <3>4, <3>5, <1>1, <1>2, <1>3, <1>6, AnswerStep
  <2>5. ASSUME NEW t \in Send(a.radio, f.src) PROVE t.radio \in RadioTables
    BY <2>2, <1>3, SendResult
  <2> QED BY <2>1, <2>2, <2>3, <2>4, <2>5
<1> QED BY <1>7, <1>8, <1>9

(* A slave saves its key before it acknowledges it.  The confirmation it    *)
(* took was the only one of that handshake, and the master that sent it has *)
(* started no key since that it could take the acknowledgement for.         *)
LEMMA OnPairConfirmOrder ==
  ASSUME CInv, NEW s \in Slaves, OnPairConfirm(s)
  PROVE  CInv'
<1> DEFINE f == Head(rxq[s])
           k == DeriveLmk(f.src, s, eng[s].nonce)
           e == [eng[s] EXCEPT !.lmk = k]
           d == [e EXCEPT !.st = "Secured", !.phase = "Idle"]
           ack(t) == Frame("PairConfirmAck", s, f.corr, NoNonce, t.key)
<1>1. s \in Nodes /\ s \notin Masters /\ rxq[s] # <<>> /\ f.type = "PairConfirm" /\ TypeOK /\ TypeOK'
  BY Roles, OnPairConfirmType DEF OnPairConfirm, HeadIs, Nodes, CInv
<1>2. /\ f \in Frames /\ ConfirmOK(s, f)
      /\ Pop(s) \in [Nodes -> Seq(Frames)] /\ Fewer(Pop(s))
      /\ \A g \in Held(Pop(s)[s]) : ~IsConfirm(g, f.src, f.nonce)
  BY <1>1, PopQueues DEF FrameOK
<1>3. /\ f.src \in Masters /\ f.src \in Nodes /\ f.nonce \in Nonces /\ f.corr \in CorrIds
      /\ eng[s] \in Engines /\ HandshakeOK(eng[s]) /\ radio[s] \in RadioTables
  BY <1>1, <1>2, FrameParts DEF Nodes, TypeOK
<1>4. eng[s].nonce \in Nonces /\ eng[s].peer \in Nodes
  BY <1>3 DEF OnPairConfirm, AwaitsConfirm, HandshakeOK
<1>5. k \in Keys /\ k \in Entries /\ k # None /\ k # Plain
  BY <1>3, <1>4, Sentinels DEF DeriveLmk, Keys, Entries
<1>6. e \in Engines
  BY <1>3, <1>5 DEF Engines
<1>7. attempts' = attempts
  BY DEF OnPairConfirm
<1>8. \/ FailPairing(s, eng[s], radio[s], f.src) /\ rxq' = Pop(s) /\ UNCHANGED <<rec, saved>>
      \/ /\ f.nonce = eng[s].nonce
         /\ \E a \in AddPeer(RemovePeer(radio[s], f.src), f.src, k) :
              \/ FailPairing(s, e, a.radio, f.src) /\ rxq' = Pop(s) /\ UNCHANGED <<rec, saved>>
              \/ /\ a.ok
                 /\ \E w \in PersistOutcomes :
                      /\ rec' = SavePair(s, eng[s].peer, k, w)
                      /\ saved' = IF w.pair THEN saved \cup {k} ELSE saved
                      /\ \/ FailPairing(s, e, a.radio, f.src) /\ rxq' = Pop(s)
                         \/ /\ Persisted(w)
                            /\ eng' = [eng EXCEPT ![s] = d]
                            /\ \E t \in Send(a.radio, f.src) :
                                 /\ radio' = [radio EXCEPT ![s] = t.radio]
                                 /\ rxq' = Transmit(Pop(s), t, s, f.src, ack(t))
  BY DEF OnPairConfirm
<1>9. CASE FailPairing(s, eng[s], radio[s], f.src) /\ rxq' = Pop(s) /\ UNCHANGED <<rec, saved>>
  BY <1>9, <1>1, <1>2, <1>3, <1>7, FailQuiet
<1>10. k = <<f.src, s, f.nonce>> \/ f.nonce # eng[s].nonce
  BY DEF DeriveLmk
<1> HIDE DEF k, e, d
<1>11. ASSUME NEW a \in AddPeer(RemovePeer(radio[s], f.src), f.src, k)
       PROVE  a.radio \in RadioTables /\ (a.ok => a.radio[f.src].hw = k)
  BY <1>3, <1>5, RemovePeerResult, AddPeerResult
<1>12. ASSUME NEW a \in AddPeer(RemovePeer(radio[s], f.src), f.src, k),
              FailPairing(s, e, a.radio, f.src), rxq' = Pop(s), UNCHANGED <<rec, saved>>
       PROVE  CInv'
  BY <1>12, <1>11, <1>1, <1>2, <1>3, <1>6, <1>7, FailQuiet
<1>13. ASSUME NEW w \in PersistOutcomes, rec' = SavePair(s, eng[s].peer, k, w),
              saved' = IF w.pair THEN saved \cup {k} ELSE saved
       PROVE  /\ \A i \in Nodes \ {s} : rec'[i] = rec[i]
              /\ saved \subseteq saved'
              /\ Persisted(w) => k \in saved'
  BY <1>13, <1>1 DEF SavePair, TypeOK, Persisted
<1>14. ASSUME NEW a \in AddPeer(RemovePeer(radio[s], f.src), f.src, k), NEW w \in PersistOutcomes,
              rec' = SavePair(s, eng[s].peer, k, w),
              saved' = IF w.pair THEN saved \cup {k} ELSE saved,
              FailPairing(s, e, a.radio, f.src), rxq' = Pop(s)
       PROVE  CInv'
  <2>1. a.radio \in RadioTables /\ saved \subseteq saved' /\ \A i \in Nodes \ {s} : rec'[i] = rec[i]
    BY <1>11, <1>13, <1>14
  <2> QED BY <2>1, <1>14, <1>1, <1>2, <1>3, <1>6, <1>7, FailQuiet
<1>15. ASSUME f.nonce = eng[s].nonce,
              NEW a \in AddPeer(RemovePeer(radio[s], f.src), f.src, k), a.ok,
              NEW w \in PersistOutcomes,
              rec' = SavePair(s, eng[s].peer, k, w),
              saved' = IF w.pair THEN saved \cup {k} ELSE saved,
              Persisted(w), eng' = [eng EXCEPT ![s] = d],
              NEW t \in Send(a.radio, f.src), radio' = [radio EXCEPT ![s] = t.radio],
              rxq' = Transmit(Pop(s), t, s, f.src, ack(t))
       PROVE  CInv'
  <2>1. /\ a.radio \in RadioTables /\ a.radio[f.src].hw = k
        /\ saved \subseteq saved' /\ k \in saved' /\ \A i \in Nodes \ {s} : rec'[i] = rec[i]
    BY <1>11, <1>13, <1>15
  <2>2. t.key = k
    BY <2>1, <1>3, <1>5, SendKey
  <2>3. ack(t) \in Frames /\ ack(t).type = "PairConfirmAck" /\ ack(t).src = s /\ ack(t).key = k
    BY <2>2, <1>1, <1>3, <1>5, FrameResult DEF Frame
  <2>4. OnlyAt(s)
    BY <2>1, <1>1, <1>15 DEF OnlyAt, TypeOK
  <2>5. k = <<f.src, s, f.nonce>>
    BY <1>10, <1>15
  <2>6. rxq'[s] = Pop(s)[s]
    BY <1>1, <1>2, <1>3, <1>15 DEF Transmit
  <2>7. PICK m \in Masters, x \in Nonces, F \in Frames :
          /\ m = f.src /\ x = f.nonce /\ F = ack(t)
          /\ k = <<m, s, x>> /\ k # Plain /\ k \in saved'
          /\ F.type = "PairConfirmAck" /\ F.src = s /\ F.key = k
    BY <2>1, <2>3, <2>5, <1>3, <1>5
  <2>8. /\ ConfirmOK(s, f) /\ f.type = "PairConfirm"
        /\ \A g \in Held(rxq'[s]) : ~IsConfirm(g, m, x)
        /\ rxq' = Transmit(Pop(s), t, s, m, F) /\ m \in Nodes
    BY <2>6, <2>7, <1>1, <1>2, <1>3, <1>15
  <2>9. eng'[m] = eng[m] /\ MasterOK(m)
    BY <2>4, <2>7, <1>1, <1>3 DEF OnlyAt, CInv
  <2>10. ASSUME Delivered(t, s, m, F)
         PROVE  Waits(m, "MasterWaitConfirmAck") /\ ConfirmAckOK(m, F)'
    <3>1. radio[m][s].hw = <<m, s, x>>
      BY <2>7, <2>10 DEF Delivered, Decrypts
    <3>2. /\ Waits(m, "MasterWaitConfirmAck")
          /\ eng[m].peer = s /\ eng[m].nonce = x
      BY <3>1, <2>7, <2>8 DEF ConfirmOK
    <3>3. eng[m].lmk = <<m, s, x>>
      BY <3>2, <2>9 DEF MasterOK
    <3>4. F.key[3] = x
      BY <2>7
    <3>5. Waits(m, "MasterWaitConfirmAck")' /\ ~Waits(m, "MasterSecureGuard")'
      BY <3>2, <2>9 DEF Waits
    <3>6. ConfirmAckOK(m, F)'
      BY <3>3, <3>4, <3>5, <2>7, <2>8, <2>9 DEF ConfirmAckOK
    <3> QED BY <3>2, <3>6
  <2> HIDE DEF f, ack
  <2> QED BY <2>1, <2>4, <2>7, <2>8, <2>10, <1>1, <1>2, <1>7, AnswerStep
<1> HIDE DEF f, ack
<1> QED BY <1>8, <1>9, <1>12, <1>14, <1>15

(* A step of a slave that sends nothing.                                    *)
LEMMA SlaveQuiet ==
  ASSUME CInv, TypeOK', NEW s \in Slaves, OnlyAt(s), Fewer(rxq'), attempts' = attempts,
         saved \subseteq saved'
  PROVE  CInv'
<1>1. \A m \in Masters : eng'[m] = eng[m] /\ radio'[m] = radio[m] /\ rec'[m] = rec[m]
  BY Roles DEF OnlyAt, Nodes
<1> QED BY <1>1, QuietStep

(* Beacons say nothing of any handshake.                                    *)
LEMMA TickDiscoveryOrder ==
  ASSUME CInv, NEW s \in Slaves, TickDiscovery(s)
  PROVE  CInv'
<1>1. TypeOK /\ TypeOK' /\ s \in Nodes
  BY TickDiscoveryType DEF CInv, Nodes
<1>2. beacons[s] + 1 \in CorrIds
  <2>1. beacons[s] \in 0 .. MaxBeacons /\ beacons[s] < MaxBeacons
    BY <1>1 DEF TypeOK, TickDiscovery
  <2> QED BY <2>1, Bounds
<1>3. PICK f \in Frames : /\ f = Frame("Discovery", s, beacons[s] + 1, NoNonce, Plain)
                          /\ f.type = "Discovery"
  <2>1. Frame("Discovery", s, beacons[s] + 1, NoNonce, Plain) \in Frames
    BY <1>1, <1>2, FrameResult DEF Entries
  <2> QED BY <2>1 DEF Frame
<1>4. PICK H \in SUBSET Masters :
        rxq' = [n \in Nodes |-> IF n \in H THEN Enqueue(rxq[n], f) ELSE rxq[n]]
  BY <1>3 DEF TickDiscovery
<1>5. UNCHANGED <<eng, radio, rec, attempts, saved>>
  BY DEF TickDiscovery
<1>6. ASSUME NEW n \in Nodes
      PROVE  /\ Held(rxq'[n]) \subseteq Held(rxq[n]) \cup {f} /\ Once(rxq'[n])
             /\ \A x : NoAckAfter(rxq[n], x) => NoAckAfter(rxq'[n], x)
  <2>1. rxq[n] \in Seq(Frames) /\ Once(rxq[n])
    BY <1>1 DEF TypeOK, CInv, QueueOK
  <2>2. rxq'[n] = rxq[n] \/ rxq'[n] = Enqueue(rxq[n], f)
    BY <1>4
  <2>3. /\ Held(Enqueue(rxq[n], f)) \subseteq Held(rxq[n]) \cup {f}
        /\ Once(Enqueue(rxq[n], f))
        /\ \A x : NoAckAfter(rxq[n], x) => NoAckAfter(Enqueue(rxq[n], f), x)
    BY <2>1, <1>3, EnqueueQueue
  <2> QED BY <2>1, <2>2, <2>3
<1>7. ASSUME NEW n \in Nodes PROVE QueueOK(n)'
  <2>1. QueueOK(n)
    BY DEF CInv
  <2> QED BY <2>1, <1>5, <1>6 DEF QueueOK, Waits
<1>8. \A n \in Nodes : \A g \in Held(rxq'[n]) : g \in Held(rxq[n]) \/ g.type = "Discovery"
  BY <1>3, <1>6
<1> QED BY <1>1, <1>5, <1>7, <1>8, SlaveStep

LEMMA IgnoreFrameOrder ==
  ASSUME CInv, NEW n \in Nodes, IgnoreFrame(n)
  PROVE  CInv'
<1>1. rxq[n] # <<>> /\ rxq' = Pop(n) /\ UNCHANGED <<eng, radio, rec, attempts, saved>>
  BY DEF IgnoreFrame
<1>2. Fewer(rxq')
  BY <1>1, PopQueues
<1>3. TypeOK'
  BY IgnoreFrameType DEF CInv
<1> QED BY <1>1, <1>2, <1>3, QuietStep

LEMMA OnUnpairRequestOrder ==
  ASSUME CInv, NEW n \in Nodes, OnUnpairRequest(n)
  PROVE  CInv'
<1> DEFINE f == Head(rxq[n])
<1>1. rxq[n] # <<>> /\ f.type = "UnpairRequest" /\ TypeOK /\ TypeOK'
  BY OnUnpairRequestType DEF OnUnpairRequest, HeadIs, CInv
<1>2. f \in Frames /\ UnpairOK(n, f) /\ Pop(n) \in [Nodes -> Seq(Frames)] /\ Fewer(Pop(n))
  BY <1>1, PopQueues DEF FrameOK
<1>3. n \in Slaves /\ f.src \in Nodes /\ f.corr \in CorrIds /\ radio[n] \in RadioTables
  BY <1>1, <1>2, FrameParts DEF UnpairOK, Nodes, TypeOK
<1>4. PICK t \in Send(radio[n], f.src) :
        /\ radio' = [radio EXCEPT ![n] = t.radio]
        /\ eng' = IF t.ok THEN [eng EXCEPT ![n].deferredPeer = f.src] ELSE eng
        /\ rxq' = Transmit(Pop(n), t, n, f.src, Frame("UnpairAck", n, f.corr, NoNonce, t.key))
  BY DEF OnUnpairRequest
<1>5. UNCHANGED <<rec, attempts, saved>>
  BY DEF OnUnpairRequest
<1>6. OnlyAt(n)
  BY <1>1, <1>4, <1>5 DEF OnlyAt, TypeOK
<1>7. PICK g \in Frames : /\ g = Frame("UnpairAck", n, f.corr, NoNonce, t.key)
                          /\ g.type = "UnpairAck"
  BY <1>3, <1>4, SendResult, FrameResult DEF Frame
<1>8. rxq' = Transmit(Pop(n), t, n, f.src, g)
  BY <1>4, <1>7
<1> HIDE DEF f
<1> QED BY <1>1, <1>2, <1>3, <1>5, <1>6, <1>7, <1>8, AnswerStep

-----------------------------------------------------------------------------
(* A master that ends its handshake or forgets a peer writes no record and  *)
(* installs no key it had not recorded or installed before.                 *)
LEMMA MasterQuiet ==
  ASSUME CInv, TypeOK', NEW m \in Masters, OnlyAt(m), saved' = saved,
         \A i \in Masters \ {m} : attempts'[i] = attempts[i], attempts'[m] >= attempts[m],
         \A n \in Nodes : Once(rxq'[n]) /\ \A x : NoAckAfter(rxq[n], x) => NoAckAfter(rxq'[n], x),
         \A n \in Nodes : \A f \in Held(rxq'[n]) :
           f \in Held(rxq[n]) \/ (f.type = "UnpairRequest" /\ n \notin Masters),
         eng'[m].deferredPeer = NoNode,
         \/ eng'[m].st # "Pairing"
         \/ SameHandshake(m) /\ (eng'[m].unpairPending => eng[m].unpairPending),
         \A p \in Nodes : rec'[m][p] \in {rec[m][p], None},
         \A p \in Nodes : \A k \in Keys \cap {radio'[m][p].hw, radio'[m][p].cache} :
           \/ k = rec[m][p]
           \/ /\ k \in {radio[m][p].hw, radio[m][p].cache}
              /\ \/ SameHandshake(m) \/ ~Waits(m, "MasterWaitConfirmAck")
                 \/ p # eng[m].peer
  PROVE  CInv'
<1>1. /\ m \in Nodes /\ attempts[m] \in Nat /\ attempts'[m] \in Nat /\ MasterOK(m)
      /\ \A p \in Nodes : rec[m][p] \in Keys \cup {None}
  BY DEF Nodes, CInv, TypeOK
<1>2. MasterOK(m)'
  <2>1. ASSUME NEW p \in Nodes, rec'[m][p] # None
        PROVE  /\ rec'[m][p] \in saved'
               /\ rec'[m][p][3][2] <= attempts'[m]
               /\ eng'[m].st = "Pairing" => rec'[m][p][3][2] < attempts'[m]
    <3>1. rec'[m][p] = rec[m][p] /\ rec[m][p] # None /\ rec[m][p] \in Keys
      BY <2>1, <1>1
    <3>2. rec[m][p][3][2] \in Nat
      BY <3>1 DEF Keys, Nonces
    <3>3. /\ rec[m][p] \in saved /\ rec[m][p][3][2] <= attempts[m]
          /\ eng[m].st = "Pairing" => rec[m][p][3][2] < attempts[m]
      BY <3>1, <1>1 DEF MasterOK
    <3>4. rec[m][p][3][2] <= attempts'[m]
      BY <3>2, <3>3, <1>1
    <3> QED BY <3>1, <3>3, <3>4 DEF SameHandshake
  <2>2. eng'[m].unpairPending => eng'[m].st # "Pairing"
    BY <1>1 DEF MasterOK, SameHandshake
  <2>3. eng'[m].st = "Pairing" => eng'[m].nonce = <<m, attempts'[m]>> /\ eng'[m].peer \in Slaves
    BY <1>1 DEF MasterOK, SameHandshake
  <2>4. Waits(m, "MasterSecureGuard")' \/ Waits(m, "MasterWaitConfirmAck")' =>
          eng'[m].lmk = <<m, eng'[m].peer, eng'[m].nonce>>
    BY <1>1 DEF MasterOK, SameHandshake, Waits
  <2> QED BY <2>1, <2>2, <2>3, <2>4 DEF MasterOK
<1>3. ASSUME NEW n \in Nodes, NEW f \in Held(rxq'[n]), f.type = "PairConfirm", f.src = m
      PROVE  /\ rec'[m][n] # <<m, n, f.nonce>>
             /\ <<m, n, f.nonce>> \in {radio'[m][n].hw, radio'[m][n].cache} =>
                  /\ <<m, n, f.nonce>> \in {radio[m][n].hw, radio[m][n].cache}
                  /\ SameHandshake(m)
  <2>1. f \in Held(rxq[n])
    BY <1>3
  <2>2. ConfirmOK(n, f) /\ f \in Frames
    BY <2>1, HeldFrames DEF CInv, FrameOK
  <2>3. <<m, n, f.nonce>> \in Keys /\ <<m, n, f.nonce>> # None
    BY <2>2, <1>3, FrameParts, Sentinels DEF ConfirmOK, Keys
  <2>4. rec[m][n] # <<m, n, f.nonce>>
    BY <2>2, <1>3 DEF ConfirmOK
  <2>5. <<m, n, f.nonce>> \in {radio[m][n].hw, radio[m][n].cache} =>
          Waits(m, "MasterWaitConfirmAck") /\ eng[m].peer = n
    BY <2>2, <1>3 DEF ConfirmOK
  <2> QED BY <2>3, <2>4, <2>5
<1> QED BY <1>2, <1>3, LeaveStep

(* What a master in any state does to its radio and its records.            *)
LEMMA RestoredKeys ==
  ASSUME TypeOK, NEW n \in Nodes, NEW e \in Engines, NEW K \in SUBSET PersistedPeers(n), Restore(n, e, K)
  PROVE  /\ OnlyAt(n)
         /\ \A p \in Nodes : rec'[n][p] \in {rec[n][p], None}
         /\ \A p \in Nodes : \A k \in Keys \cap {radio'[n][p].hw, radio'[n][p].cache} : k = rec[n][p]
         /\ \/ eng'[n] = e
            \/ eng'[n].st = "Secured" /\ eng'[n].deferredPeer = e.deferredPeer
<1> DEFINE g(p) == [e EXCEPT !.st = "Secured", !.phase = "Idle", !.peer = p,
                             !.lmk = rec[n][p], !.corr = 0, !.nonce = NoNonce]
           r == [p \in Nodes |-> IF p \in K THEN [hw |-> rec[n][p], cache |-> rec[n][p]]
                                 ELSE [hw |-> None, cache |-> None]]
<1>1. radio' = [radio EXCEPT ![n] = r] /\ rec' \in ErasePairs(n, PersistedPeers(n) \ K)
  BY DEF Restore
<1>2. PICK D : rec' = [rec EXCEPT ![n] = [p \in Nodes |-> IF p \in D THEN None ELSE rec[n][p]]]
  BY <1>1 DEF ErasePairs
<1>3. /\ \A i \in Nodes \ {n} : rec'[i] = rec[i]
      /\ \A p \in Nodes : rec'[n][p] \in {rec[n][p], None}
  BY <1>2 DEF TypeOK
<1>4. eng' = [eng EXCEPT ![n] = e] \/ \E p \in K : eng' = [eng EXCEPT ![n] = g(p)]
  BY DEF Restore
<1>5. \A p \in Nodes : \A k \in Keys \cap {r[p].hw, r[p].cache} : k = rec[n][p]
  BY Sentinels
<1>6. ASSUME NEW p \in K PROVE g(p).st = "Secured" /\ g(p).deferredPeer = e.deferredPeer
  BY DEF Engines
<1> HIDE DEF r
<1>7. radio'[n] = r /\ \A i \in Nodes \ {n} : radio'[i] = radio[i]
  BY <1>1 DEF TypeOK
<1>8. /\ eng'[n] = e \/ \E p \in K : eng'[n] = g(p)
      /\ \A i \in Nodes \ {n} : eng'[i] = eng[i]
  <2> HIDE DEF g
  <2> QED BY <1>4 DEF TypeOK
<1> HIDE DEF g
<1>9. eng'[n] = e \/ (eng'[n].st = "Secured" /\ eng'[n].deferredPeer = e.deferredPeer)
  BY <1>8, <1>6
<1> QED BY <1>3, <1>5, <1>7, <1>8, <1>9 DEF OnlyAt

(* A restart installs only keys that were recorded; every confirmation in   *)
(* flight has a key that was not.                                           *)
LEMMA RebootOrder ==
  ASSUME CInv, NEW n \in Nodes, Reboot(n)
  PROVE  CInv'
<1>1. PICK K \in SUBSET PersistedPeers(n) : Restore(n, NewEngine, K)
  BY DEF Reboot
<1>2. /\ TypeOK /\ TypeOK' /\ attempts' = attempts /\ saved' = saved
      /\ rxq' = [rxq EXCEPT ![n] = <<>>] /\ NewEngine \in Engines
  BY RebootType DEF Reboot, CInv, NewEngine, Engines, LinkStates, PairPhases
<1>3. ASSUME NEW i \in Nodes
      PROVE  /\ Held(rxq'[i]) \subseteq Held(rxq[i]) /\ Once(rxq'[i])
             /\ \A x : NoAckAfter(rxq[i], x) => NoAckAfter(rxq'[i], x)
  <2>1. Once(rxq[i])
    BY DEF CInv, QueueOK
  <2>2. rxq'[i] = rxq[i] \/ rxq'[i] = <<>>
    BY <1>2 DEF TypeOK
  <2> QED BY <2>1, <2>2 DEF Held, Once, NoAckAfter
<1>4. CASE n \in Slaves
  BY <1>1, <1>2, <1>3, <1>4, RestoredKeys, SlaveQuiet DEF Fewer
<1>5. CASE n \in Masters
  <2>1. /\ OnlyAt(n)
        /\ \A p \in Nodes : rec'[n][p] \in {rec[n][p], None}
        /\ \A p \in Nodes : \A k \in Keys \cap {radio'[n][p].hw, radio'[n][p].cache} : k = rec[n][p]
    BY <1>1, <1>2, RestoredKeys
  <2>3. eng'[n].deferredPeer = NoNode /\ eng'[n].st # "Pairing"
    <3>1. \/ eng'[n] = NewEngine
          \/ eng'[n].st = "Secured" /\ eng'[n].deferredPeer = NewEngine.deferredPeer
      BY <1>1, <1>2, RestoredKeys
    <3> QED BY <3>1 DEF NewEngine
  <2>2. attempts'[n] >= attempts[n]
    BY <1>2, <1>5 DEF TypeOK
  <2> QED BY <2>1, <2>2, <2>3, <1>2, <1>3, <1>5, MasterQuiet
<1> QED BY <1>4, <1>5 DEF Nodes

LEMMA HardReinitOrder ==
  ASSUME CInv, NEW n \in Nodes, HardReinit(n)
  PROVE  CInv'
<1>1. PICK K \in SUBSET PersistedPeers(n) : Restore(n, eng[n], K)
  BY DEF HardReinit
<1>2. TypeOK /\ TypeOK' /\ attempts' = attempts /\ saved' = saved /\ rxq' = rxq /\ eng[n] \in Engines
  BY HardReinitType DEF HardReinit, CInv, TypeOK
<1>3. Fewer(rxq')
  BY <1>2, SameQueues
<1>4. CASE n \in Slaves
  BY <1>1, <1>2, <1>3, <1>4, RestoredKeys, SlaveQuiet
<1>5. CASE n \in Masters
  <2>1. /\ OnlyAt(n)
        /\ \A p \in Nodes : rec'[n][p] \in {rec[n][p], None}
        /\ \A p \in Nodes : \A k \in Keys \cap {radio'[n][p].hw, radio'[n][p].cache} : k = rec[n][p]
    BY <1>1, <1>2, RestoredKeys
  <2>2. attempts'[n] >= attempts[n] /\ attempts'[n] = attempts[n]
    BY <1>2, <1>5 DEF TypeOK
  <2>3. /\ eng'[n].deferredPeer = NoNode
        /\ \/ eng'[n].st # "Pairing"
           \/ SameHandshake(n) /\ (eng'[n].unpairPending => eng[n].unpairPending)
    <3>1. eng[n].deferredPeer = NoNode
      BY <1>5 DEF CInv, MasterOK
    <3>2. CASE eng'[n] = eng[n]
      BY <3>1, <3>2, <2>2 DEF SameHandshake
    <3>3. CASE eng'[n] # eng[n]
      <4>1. eng'[n].st = "Secured" /\ eng'[n].deferredPeer = eng[n].deferredPeer
        BY <3>3, <1>1, <1>2, RestoredKeys
      <4> QED BY <4>1, <3>1
    <3> QED BY <3>2, <3>3
  <2> QED BY <2>1, <2>2, <2>3, <1>2, <1>3, <1>5, MasterQuiet DEF Fewer
<1> QED BY <1>4, <1>5 DEF Nodes

(* Evicting one peer, with or without resetting the engine.                 *)
LEMMA ForgetOrder ==
  ASSUME CInv, TypeOK', NEW n \in Nodes, NEW p \in Nodes, rec' \in ErasePairs(n, {p}),
         radio' = [radio EXCEPT ![n] = RemovePeer(@, p)], Fewer(rxq'),
         attempts' = attempts, saved' = saved,
         \/ eng' = [eng EXCEPT ![n] = ResetPairing(@)] /\ (n \in Masters => eng[n].st # "Pairing")
         \/ eng' = eng
  PROVE  CInv'
<1>1. TypeOK /\ eng[n] \in Engines /\ radio[n] \in RadioTables
  BY DEF CInv, TypeOK
<1>2. PICK D : rec' = [rec EXCEPT ![n] = [q \in Nodes |-> IF q \in D THEN None ELSE rec[n][q]]]
  BY DEF ErasePairs
<1>3. /\ \A i \in Nodes \ {n} : rec'[i] = rec[i]
      /\ \A q \in Nodes : rec'[n][q] \in {rec[n][q], None}
  BY <1>1, <1>2 DEF TypeOK
<1>4. radio'[n] = RemovePeer(radio[n], p) /\ \A i \in Nodes \ {n} : radio'[i] = radio[i]
  BY <1>1 DEF TypeOK
<1>5. /\ eng'[n] = ResetPairing(eng[n]) \/ eng'[n] = eng[n]
      /\ \A i \in Nodes \ {n} : eng'[i] = eng[i]
  BY <1>1 DEF TypeOK
<1>6. OnlyAt(n)
  BY <1>3, <1>4, <1>5 DEF OnlyAt
<1>7. CASE n \in Slaves
  BY <1>6, <1>7, SlaveQuiet
<1>8. CASE n \in Masters
  <2>1. eng[n].deferredPeer = NoNode /\ attempts'[n] >= attempts[n] /\ attempts'[n] = attempts[n]
    BY <1>1, <1>8 DEF CInv, MasterOK, TypeOK
  <2>2. \A q \in Nodes : \A k \in Keys \cap {radio'[n][q].hw, radio'[n][q].cache} :
          k \in {radio[n][q].hw, radio[n][q].cache}
    BY <1>1, <1>4, Sentinels DEF RemovePeer, RadioTables
  <2>3. \/ /\ eng'[n].st # "Pairing" /\ eng'[n].deferredPeer = NoNode
           /\ ~Waits(n, "MasterWaitConfirmAck")
        \/ SameHandshake(n) /\ eng'[n] = eng[n]
    <3>1. CASE eng' = eng
      BY <3>1, <2>1 DEF SameHandshake
    <3>2. CASE eng' = [eng EXCEPT ![n] = ResetPairing(@)] /\ eng[n].st # "Pairing"
      <4>1. eng'[n] = ResetPairing(eng[n])
        BY <3>2, <1>1 DEF TypeOK
      <4>2. eng'[n].st = "Unpaired" /\ eng'[n].deferredPeer = NoNode
        BY <4>1, <1>1 DEF ResetPairing, Engines
      <4> QED BY <4>2, <3>2 DEF Waits
    <3> QED BY <3>1, <3>2, <1>8
  <2> QED BY <2>1, <2>2, <2>3, <1>3, <1>6, <1>8, MasterQuiet DEF Fewer
<1> QED BY <1>7, <1>8 DEF Nodes

LEMMA TickDeferredCleanupOrder ==
  ASSUME CInv, NEW n \in Nodes, TickDeferredCleanup(n)
  PROVE  CInv'
<1>1. TypeOK' /\ eng[n].deferredPeer \in Nodes /\ Fewer(rxq')
  BY TickDeferredCleanupType, SameQueues DEF CInv, TypeOK, Engines, TickDeferredCleanup, Fewer
<1>2. n \notin Masters
  BY DEF CInv, MasterOK, TickDeferredCleanup
<1> QED BY <1>1, <1>2, ForgetOrder DEF TickDeferredCleanup

LEMMA OnUnpairAckOrder ==
  ASSUME CInv, NEW n \in Nodes, OnUnpairAck(n)
  PROVE  CInv'
<1>1. rxq[n] # <<>> /\ rxq' = Pop(n) /\ TypeOK'
  BY OnUnpairAckType DEF OnUnpairAck, HeadIs, CInv
<1>2. Fewer(rxq') /\ Head(rxq[n]).src \in Nodes
  BY <1>1, PopQueues, FrameParts
<1>3. n \in Masters => eng[n].st # "Pairing"
  BY DEF OnUnpairAck, AwaitsUnpairAck, CInv, MasterOK
<1> QED BY <1>1, <1>2, <1>3, ForgetOrder DEF OnUnpairAck

LEMMA RemovePeerRequestOrder ==
  ASSUME CInv, NEW n \in Nodes, NEW p \in Nodes, RemovePeerRequest(n, p)
  PROVE  CInv'
<1>1. rxq' = rxq /\ TypeOK' /\ attempts' = attempts /\ saved' = saved
  BY RemovePeerRequestType DEF RemovePeerRequest, CInv
<1>2. Fewer(rxq')
  BY <1>1, SameQueues
<1>3. \/ eng' = [eng EXCEPT ![n] = ResetPairing(@)] /\ eng[n].st # "Pairing"
      \/ eng' = eng
  BY DEF RemovePeerRequest
<1> QED BY <1>1, <1>2, <1>3, ForgetOrder DEF RemovePeerRequest

LEMMA TickUnpairTimeoutOrder ==
  ASSUME CInv, NEW n \in Nodes, TickUnpairTimeout(n)
  PROVE  CInv'
<1>1. /\ rxq' = rxq /\ radio' = radio /\ rec' = rec /\ attempts' = attempts /\ saved' = saved
      /\ TypeOK /\ TypeOK' /\ eng[n] \in Engines
  BY TickUnpairTimeoutType DEF TickUnpairTimeout, CInv, TypeOK
<1>2. Fewer(rxq')
  BY <1>1, SameQueues
<1>3. eng' = [eng EXCEPT ![n] = [eng[n] EXCEPT !.unpairPending = FALSE]]
  BY DEF TickUnpairTimeout
<1>4. eng'[n] = [eng[n] EXCEPT !.unpairPending = FALSE] /\ \A i \in Nodes \ {n} : eng'[i] = eng[i]
  BY <1>1, <1>3 DEF TypeOK
<1>5. OnlyAt(n)
  BY <1>1, <1>4 DEF OnlyAt
<1>6. CASE n \in Slaves
  BY <1>1, <1>2, <1>5, <1>6, SlaveQuiet
<1>7. CASE n \in Masters
  <2>1. SameHandshake(n) /\ eng'[n].deferredPeer = eng[n].deferredPeer /\ eng'[n].unpairPending = FALSE
    BY <1>1, <1>4 DEF SameHandshake, Engines
  <2>2. eng[n].deferredPeer = NoNode /\ attempts'[n] >= attempts[n]
    BY <1>1, <1>7 DEF CInv, MasterOK, TypeOK
  <2> QED BY <2>1, <2>2, <1>1, <1>2, <1>5, <1>7, MasterQuiet DEF Fewer
<1> QED BY <1>6, <1>7 DEF Nodes

(* A master that gives up evicts the peer that can hold the current key.    *)
LEMMA MasterFails ==
  ASSUME CInv, TypeOK', NEW m \in Masters, NEW p \in Nodes, NEW e \in Engines,
         NEW r \in RadioTables, FailPairing(m, e, r, p),
         \A q \in Nodes \ {p} : r[q] = radio[m][q],
         p = eng[m].peer \/ ~Waits(m, "MasterWaitConfirmAck"),
         rec' = rec, saved' = saved, Fewer(rxq'),
         \A i \in Masters \ {m} : attempts'[i] = attempts[i], attempts'[m] >= attempts[m]
  PROVE  CInv'
<1>1. m \in Nodes /\ TypeOK
  BY DEF Nodes, CInv
<1>2. eng' = [eng EXCEPT ![m] = ResetPairing(e)] /\ radio' = [radio EXCEPT ![m] = RemovePeer(r, p)]
  BY DEF FailPairing
<1>3. /\ eng'[m] = ResetPairing(e) /\ \A i \in Nodes \ {m} : eng'[i] = eng[i]
      /\ radio'[m] = RemovePeer(r, p) /\ \A i \in Nodes \ {m} : radio'[i] = radio[i]
  BY <1>1, <1>2 DEF TypeOK
<1>4. OnlyAt(m)
  BY <1>3 DEF OnlyAt
<1>5. eng'[m].st = "Unpaired" /\ eng'[m].deferredPeer = NoNode
  BY <1>3 DEF ResetPairing, Engines
<1>6. /\ RemovePeer(r, p)[p] = [hw |-> None, cache |-> None]
      /\ \A q \in Nodes \ {p} : RemovePeer(r, p)[q] = radio[m][q]
  BY RemovePeerResult DEF RemovePeer, RadioTables
<1>7. ASSUME NEW q \in Nodes, NEW k \in Keys \cap {radio'[m][q].hw, radio'[m][q].cache}
      PROVE  q # p /\ k \in {radio[m][q].hw, radio[m][q].cache}
  BY <1>3, <1>6, Sentinels
<1>8. ASSUME NEW q \in Nodes, NEW k \in Keys \cap {radio'[m][q].hw, radio'[m][q].cache}
      PROVE  \/ k = rec[m][q]
             \/ /\ k \in {radio[m][q].hw, radio[m][q].cache}
                /\ \/ SameHandshake(m) \/ ~Waits(m, "MasterWaitConfirmAck")
                   \/ q # eng[m].peer
  BY <1>7
<1> QED BY <1>4, <1>5, <1>8, MasterQuiet DEF Fewer

LEMMA TickPairTimeoutOrder ==
  ASSUME CInv, NEW n \in Nodes, TickPairTimeout(n)
  PROVE  CInv'
<1>1. /\ rxq' = rxq /\ rec' = rec /\ attempts' = attempts /\ saved' = saved
      /\ FailPairing(n, eng[n], radio[n], eng[n].peer)
      /\ TypeOK /\ TypeOK' /\ eng[n] \in Engines /\ HandshakeOK(eng[n]) /\ radio[n] \in RadioTables
  BY TickPairTimeoutType DEF TickPairTimeout, CInv, TypeOK
<1>2. Fewer(rxq') /\ eng[n].peer \in Nodes
  BY <1>1, SameQueues DEF TickPairTimeout, HandshakeOK
<1>3. CASE n \in Slaves
  BY <1>1, <1>2, <1>3, FailQuiet
<1>4. CASE n \in Masters
  <2>1. attempts'[n] >= attempts[n]
    BY <1>1, <1>4 DEF TypeOK
  <2> QED BY <2>1, <1>1, <1>2, <1>4, MasterFails
<1> QED BY <1>3, <1>4 DEF Nodes

(* PairBusy comes from the peer of the handshake it ends.  onPairBusy only  *)
(* compares the correlation id: a PairBusy of another slave, answering an   *)
(* old attempt with the same id, evicts that slave, and the key of the      *)
(* abandoned handshake stays in the table; its late acknowledgement can     *)
(* then be taken for a later handshake.                                     *)
BusyFromPeer == \A m \in Masters : OnPairBusy(m) => Head(rxq[m]).src = eng[m].peer

LEMMA OnPairBusyOrder ==
  ASSUME CInv, BusyFromPeer, NEW m \in Masters, OnPairBusy(m)
  PROVE  CInv'
<1>1. /\ rxq[m] # <<>> /\ rxq' = Pop(m) /\ rec' = rec /\ attempts' = attempts /\ saved' = saved
      /\ FailPairing(m, eng[m], radio[m], Head(rxq[m]).src) /\ Head(rxq[m]).src = eng[m].peer
      /\ TypeOK /\ TypeOK' /\ m \in Nodes
  BY OnPairBusyType DEF OnPairBusy, HeadIs, CInv, Nodes, BusyFromPeer
<1>2. Fewer(rxq') /\ Head(rxq[m]).src \in Nodes
  BY <1>1, PopQueues, FrameParts
<1>3. eng[m] \in Engines /\ radio[m] \in RadioTables /\ attempts'[m] >= attempts[m]
  BY <1>1 DEF TypeOK
<1> QED BY <1>1, <1>2, <1>3, MasterFails

(* What send() leaves in the table: entries that were there or in the cache.*)
LEMMA SentKeys ==
  ASSUME NEW r \in RadioTables, NEW p \in Nodes, NEW t \in Send(r, p), NEW q \in Nodes
  PROVE  \A k \in Keys \cap {t.radio[q].hw, t.radio[q].cache} : k \in {r[q].hw, r[q].cache}
<1>1. CASE q # p \/ r[p].hw # None
  BY <1>1, SendResult
<1>2. CASE q = p /\ r[p].hw = None
  <2> DEFINE c == Resolved(r, p)
             A == [ok |-> TRUE, radio |-> [r EXCEPT ![p] = [hw |-> c, cache |-> c]]]
             B == [ok |-> FALSE, radio |-> [r EXCEPT ![p] = [hw |-> None, cache |-> r[p].cache]]]
  <2>1. PICK a \in AddPeer(r, p, c), o \in {"refused", "lost", "heard"} :
          t = [ok |-> a.ok /\ o # "refused", heard |-> a.ok /\ o = "heard",
               radio |-> a.radio, key |-> a.radio[p].hw]
    BY <1>2 DEF Send
  <2>2. t.radio = a.radio
    BY <2>1
  <2>3. a = A \/ a = B
    BY DEF AddPeer
  <2>4. c \in Keys => c = r[p].cache
    BY Sentinels DEF Resolved
  <2> HIDE DEF c
  <2>5. CASE a = A
    <3>1. a.radio[p] = [hw |-> c, cache |-> c]
      BY <2>5 DEF RadioTables
    <3> QED BY <3>1, <2>2, <2>4, <1>2
  <2>6. CASE a = B
    <3>1. a.radio[p] = [hw |-> None, cache |-> r[p].cache]
      BY <2>6 DEF RadioTables
    <3> QED BY <3>1, <2>2, <1>2, Sentinels
  <2> QED BY <2>3, <2>5, <2>6
<1> QED BY <1>1, <1>2

(* An unpair request goes to a slave, through the entry of a paired master. *)
LEMMA UnpairRequestOrder ==
  ASSUME CInv, NEW m \in Masters, NEW s \in Slaves, NEW c \in CorrIds, UnpairRequest(m, s, c)
  PROVE  CInv'
<1>1. /\ m \in Nodes /\ s \in Nodes /\ s \notin Masters /\ TypeOK /\ TypeOK'
      /\ eng[m].st = "Secured" /\ rec' = rec /\ attempts' = attempts /\ saved' = saved
  BY Roles, UnpairRequestType DEF UnpairRequest, CInv, Nodes
<1>2. /\ eng[m] \in Engines /\ radio[m] \in RadioTables /\ attempts'[m] >= attempts[m]
      /\ rxq \in [Nodes -> Seq(Frames)] /\ eng[m].deferredPeer = NoNode
  BY <1>1 DEF TypeOK, CInv, MasterOK
<1>3. PICK t \in Send(radio[m], s) :
        /\ radio' = [radio EXCEPT ![m] = t.radio]
        /\ eng' = [eng EXCEPT ![m] = [@ EXCEPT !.peer = s, !.unpairPending = t.ok,
                                               !.unpairCorr = IF t.ok THEN c ELSE 0]]
        /\ rxq' = Transmit(rxq, t, m, s, Frame("UnpairRequest", m, c, NoNonce, t.key))
  BY DEF UnpairRequest
<1>4. PICK f \in Frames : /\ f = Frame("UnpairRequest", m, c, NoNonce, t.key)
                          /\ f.type = "UnpairRequest"
  <2>1. Frame("UnpairRequest", m, c, NoNonce, t.key) \in Frames
    BY <1>1, <1>2, SendResult, FrameResult
  <2> QED BY <2>1 DEF Frame
<1>5. /\ eng'[m].st = "Secured" /\ eng'[m].deferredPeer = NoNode
      /\ radio'[m] = t.radio /\ OnlyAt(m)
  BY <1>1, <1>2, <1>3 DEF OnlyAt, TypeOK, Engines
<1>6. rxq' = Transmit(rxq, t, m, s, f)
  BY <1>3, <1>4
<1>7. ASSUME NEW n \in Nodes
      PROVE  /\ Once(rxq'[n])
             /\ \A x : NoAckAfter(rxq[n], x) => NoAckAfter(rxq'[n], x)
             /\ \A g \in Held(rxq'[n]) : g \in Held(rxq[n]) \/ (g.type = "UnpairRequest" /\ n \notin Masters)
  <2>1. Once(rxq[n])
    BY DEF CInv, QueueOK
  <2>2. Once(rxq'[n])
    BY <2>1, <1>2, <1>4, <1>6, TransmitQueues
  <2>3. \A x : NoAckAfter(rxq[n], x) => NoAckAfter(rxq'[n], x)
    BY <1>2, <1>4, <1>6, TransmitQueues
  <2>4. Held(rxq'[n]) \subseteq Held(rxq[n]) \cup {f}
    BY <1>2, <1>6, TransmitQueues
  <2>5. n # s => rxq'[n] = rxq[n]
    BY <1>2, <1>6, TransmitQueues
  <2> QED BY <2>2, <2>3, <2>4, <2>5, <1>1, <1>4
<1>8. ASSUME NEW p \in Nodes, NEW k \in Keys \cap {radio'[m][p].hw, radio'[m][p].cache}
      PROVE  k \in {radio[m][p].hw, radio[m][p].cache}
  <2>1. \A j \in Keys \cap {t.radio[p].hw, t.radio[p].cache} : j \in {radio[m][p].hw, radio[m][p].cache}
    BY <1>1, <1>2, SentKeys
  <2> QED BY <2>1, <1>5
<1>9. ~Waits(m, "MasterWaitConfirmAck")
  BY <1>1 DEF Waits
<1> QED BY <1>1, <1>2, <1>5, <1>7, <1>8, <1>9, MasterQuiet

-----------------------------------------------------------------------------
(* The handshake.                                                           *)

(* An insertion that succeeds leaves nothing else in the entry.             *)
LEMMA AddedCache ==
  ASSUME NEW r \in RadioTables, NEW p \in Nodes, NEW k \in Entries,
         NEW a \in AddPeer(r, p, k), a.ok
  PROVE  a.radio[p].hw = k /\ a.radio[p].cache = k
<1> DEFINE A == [r EXCEPT ![p] = [hw |-> k, cache |-> k]]
<1>1. a.ok = FALSE \/ a.radio = A
  BY DEF AddPeer
<1>2. A[p] = [hw |-> k, cache |-> k]
  BY DEF RadioTables
<1> HIDE DEF A
<1> QED BY <1>1, <1>2

(* A master starts a handshake with a nonce nothing has seen.               *)
LEMMA RequestPairOrder ==
  ASSUME CInv, TypeOK', NEW m \in Masters, NEW s \in Slaves, NEW c \in CorrIds,
         NEW q \in [Nodes -> Seq(Frames)], Fewer(q), RequestPair(m, s, c, q)
  PROVE  CInv'
<1> DEFINE x == <<m, attempts[m] + 1>>
           e == [eng[m] EXCEPT !.st = "Pairing", !.phase = "MasterWaitInitAck",
                               !.peer = s, !.corr = c, !.nonce = x]
<1>1. /\ m \in Nodes /\ s \in Nodes /\ s \notin Masters /\ TypeOK
      /\ eng[m] \in Engines /\ radio[m] \in RadioTables /\ Plain \in Entries
  BY Roles DEF Nodes, CInv, TypeOK, Entries
<1>2. /\ attempts[m] \in 0 .. MaxAttempts /\ attempts[m] < MaxAttempts /\ attempts[m] \in Nat
      /\ eng[m].st # "Pairing" /\ ~eng[m].unpairPending
      /\ rec' = rec /\ saved' = saved /\ attempts' = [attempts EXCEPT ![m] = @ + 1]
  BY <1>1, Bounds DEF RequestPair, TypeOK
<1>3. /\ attempts'[m] = attempts[m] + 1 /\ attempts'[m] >= attempts[m]
      /\ \A i \in Masters \ {m} : attempts'[i] = attempts[i]
  BY <1>1, <1>2 DEF TypeOK
<1>4. PICK X \in Nonces : X = x /\ X = <<m, attempts'[m]>>
  <2>1. attempts[m] + 1 \in 1 .. MaxAttempts
    BY <1>2, Bounds
  <2> QED BY <2>1, <1>3 DEF Nonces
<1>5. PICK E \in Engines :
        /\ E = e /\ E.st = "Pairing" /\ E.phase = "MasterWaitInitAck" /\ E.peer = s
        /\ E.nonce = X /\ E.deferredPeer = eng[m].deferredPeer
        /\ E.unpairPending = eng[m].unpairPending
  <2>1. e \in Engines
    BY <1>1, <1>4, Bounds DEF Engines, LinkStates, PairPhases
  <2>2. /\ e.st = "Pairing" /\ e.phase = "MasterWaitInitAck" /\ e.peer = s /\ e.nonce = x
        /\ e.deferredPeer = eng[m].deferredPeer /\ e.unpairPending = eng[m].unpairPending
    BY <1>1 DEF Engines
  <2> HIDE DEF e, x
  <2> QED BY <2>1, <2>2, <1>4
<1>6. PICK a \in AddPeer(radio[m], s, Plain) :
        \/ FailPairing(m, E, a.radio, s) /\ rxq' = q
        \/ /\ a.ok
           /\ \E t \in Send(a.radio, s) :
                \/ FailPairing(m, E, t.radio, s) /\ rxq' = q
                \/ /\ eng' = [eng EXCEPT ![m] = E]
                   /\ radio' = [radio EXCEPT ![m] = t.radio]
                   /\ rxq' = Transmit(q, t, m, s, Frame("PairInit", m, c, X, t.key))
  BY <1>4, <1>5 DEF RequestPair
<1> HIDE DEF x, e
<1>7. /\ a.radio \in RadioTables /\ \A p \in Nodes \ {s} : a.radio[p] = radio[m][p]
      /\ a.ok => a.radio[s].hw = Plain
  BY <1>1, AddPeerResult
<1>8. ~Waits(m, "MasterWaitConfirmAck")
  BY <1>2 DEF Waits
<1>9. ASSUME NEW r \in RadioTables, \A p \in Nodes \ {s} : r[p] = radio[m][p],
             FailPairing(m, E, r, s), rxq' = q
      PROVE  CInv'
  BY <1>1, <1>2, <1>3, <1>8, <1>9, MasterFails
<1>10. ASSUME a.ok, NEW t \in Send(a.radio, s), eng' = [eng EXCEPT ![m] = E],
              radio' = [radio EXCEPT ![m] = t.radio],
              rxq' = Transmit(q, t, m, s, Frame("PairInit", m, c, X, t.key))
       PROVE  CInv'
  <2>1. /\ t.radio \in RadioTables /\ t.key \in Entries /\ t.radio = a.radio
    BY <1>1, <1>7, <1>10, SendResult, Sentinels
  <2>2. PICK f \in Frames : /\ f = Frame("PairInit", m, c, X, t.key)
                            /\ f.type = "PairInit" /\ f.src = m /\ f.nonce = X
    <3>1. Frame("PairInit", m, c, X, t.key) \in Frames
      BY <2>1, <1>1, FrameResult
    <3> QED BY <3>1 DEF Frame
  <2>3. rxq' = Transmit(q, t, m, s, f)
    BY <2>2, <1>10
  <2>4. /\ OnlyAt(m) /\ eng'[m] = E /\ radio'[m] = t.radio
    BY <1>1, <1>2, <1>10 DEF OnlyAt, TypeOK
  <2>5. MasterOK(m) /\ MasterOK(m)'
    <3>1. MasterOK(m)
      BY DEF CInv
    <3>2. ASSUME NEW p \in Nodes, rec[m][p] # None
          PROVE  rec[m][p] \in saved /\ rec[m][p][3][2] < attempts'[m] /\ rec[m][p][3][2] <= attempts'[m]
      <4>1. rec[m][p] \in Keys /\ rec[m][p][3][2] \in Nat
        <5>1. rec[m][p] \in Keys
          BY <3>2, <1>1 DEF TypeOK
        <5> QED BY <5>1 DEF Keys, Nonces
      <4>2. rec[m][p] \in saved /\ rec[m][p][3][2] <= attempts[m]
        BY <3>1, <3>2 DEF MasterOK
      <4> QED BY <4>1, <4>2, <1>2, <1>3
    <3>3. rec'[m] = rec[m]
      BY <1>2
    <3>4. /\ eng'[m].deferredPeer = NoNode /\ ~eng'[m].unpairPending
          /\ eng'[m].nonce = <<m, attempts'[m]>> /\ eng'[m].peer \in Slaves
          /\ ~Waits(m, "MasterSecureGuard")' /\ ~Waits(m, "MasterWaitConfirmAck")'
      BY <3>1, <2>4, <1>2, <1>4, <1>5 DEF MasterOK, Waits
    <3> QED BY <3>1, <3>2, <3>3, <3>4, <1>2 DEF MasterOK
  <2>6. ASSUME NEW n \in Nodes
        PROVE  /\ Held(rxq'[n]) \subseteq Held(rxq[n]) \cup {f} /\ Once(rxq'[n])
               /\ n # s => Held(rxq'[n]) \subseteq Held(rxq[n])
               /\ \A y : NoAckAfter(rxq[n], y) => NoAckAfter(rxq'[n], y)
    <3>1. /\ Held(q[n]) \subseteq Held(rxq[n]) /\ Once(q[n])
          /\ \A y : NoAckAfter(rxq[n], y) => NoAckAfter(q[n], y)
      BY DEF Fewer
    <3>2. Held(rxq'[n]) \subseteq Held(q[n]) \cup {f}
      BY <2>3, TransmitQueues
    <3>3. n # s => rxq'[n] = q[n]
      BY <2>3, TransmitQueues
    <3>4. Once(rxq'[n])
      BY <3>1, <2>2, <2>3, TransmitQueues
    <3>5. \A y : NoAckAfter(q[n], y) => NoAckAfter(rxq'[n], y)
      BY <2>2, <2>3, TransmitQueues
    <3> QED BY <3>1, <3>2, <3>3, <3>4, <3>5
  (* No frame in flight has the new nonce.                                  *)
  <2>7. ASSUME NEW n \in Nodes, NEW g \in Held(rxq[n]),
               \/ g.type \in {"PairInit", "PairConfirm"} /\ g.src = m
               \/ g.type = "PairInitAck" /\ g.nonce[1] = m
        PROVE  g.nonce[2] <= attempts'[m] /\ g.nonce # X
    <3>1. FrameOK(n, g) /\ g \in Frames
      BY HeldFrames DEF CInv
    <3>2. g.nonce[2] <= attempts[m] /\ g.nonce[2] \in Nat
      BY <3>1, <2>7, FrameParts DEF FrameOK, PairInitOK, InitAckOK, ConfirmOK
    <3>3. X[2] = attempts[m] + 1
      BY <1>3, <1>4
    <3>4. g.nonce[2] <= attempts[m] + 1 /\ g.nonce[2] # attempts[m] + 1
      BY <3>2, <1>2
    <3> QED BY <3>3, <3>4, <1>3
  <2>8. ASSUME NEW n \in Nodes PROVE QueueOK(n)'
    <3>1. QueueOK(n)
      BY DEF CInv
    <3>2. CASE n # m
      <4>1. eng'[n] = eng[n]
        BY <3>2, <2>4 DEF OnlyAt
      <4> QED BY <3>1, <4>1, <2>6 DEF QueueOK, Waits
    <3>3. CASE n = m
      <4>1. NoAckAfter(rxq[m], X)
        <5>1. SUFFICES ASSUME NEW i \in 1 .. Len(rxq[m]), rxq[m][i].type = "PairInitAck",
                              rxq[m][i].nonce = X
                       PROVE  FALSE
          BY DEF NoAckAfter
        <5>2. rxq[m][i] \in Held(rxq[m])
          BY DEF Held
        <5>3. X[1] = m
          BY <1>4
        <5> QED BY <5>1, <5>2, <5>3, <1>1, <2>7
      <4> QED BY <3>3, <4>1, <2>4, <2>6, <1>5 DEF QueueOK
    <3> QED BY <3>2, <3>3
  <2>9. ASSUME NEW n \in Nodes, NEW g \in Held(rxq'[n])
        PROVE  (g \in Held(rxq[n]) /\ ~About(m, n, g)) \/ FrameOK(n, g)'
    <3>1. CASE g = f
      <4>1. n = s \/ g \in Held(rxq[n])
        BY <3>1, <2>6
      <4>2. n = s
        BY <3>1, <4>1, <2>2, <2>7
      <4>3. f.nonce[1] = m /\ f.nonce[2] <= attempts'[m]
        <5>1. f.nonce = <<m, attempts'[m]>>
          BY <2>2, <1>4
        <5>2. attempts'[m] \in Nat
          BY DEF TypeOK
        <5>3. f.nonce[1] = m /\ f.nonce[2] = attempts'[m]
          BY <5>1
        <5> QED BY <5>2, <5>3
      <4> QED BY <3>1, <4>2, <4>3, <2>2, <2>4, <1>5
              DEF FrameOK, PairInitOK, InitAckOK, ConfirmOK, ConfirmAckOK, UnpairOK
    <3>2. CASE g # f /\ About(m, n, g)
      <4>1. g \in Held(rxq[n])
        BY <3>2, <2>6
      <4>2. FrameOK(n, g) /\ g \in Frames
        BY <4>1, HeldFrames DEF CInv
      <4>3. PairInitOK(n, g)'
        BY <3>2, <4>1, <4>2, <2>4, <2>7, <1>5 DEF FrameOK, PairInitOK, About
      <4>4. InitAckOK(g)'
        BY <3>2, <4>1, <4>2, <2>4, <2>7, <1>5 DEF FrameOK, InitAckOK, About
      <4>5. ConfirmOK(n, g)'
        <5>1. SUFFICES ASSUME g.type = "PairConfirm" PROVE ConfirmOK(n, g)'
          BY DEF ConfirmOK
        <5>2. g.src = m /\ g.nonce # X /\ g.nonce[2] <= attempts'[m] /\ ConfirmOK(n, g)
          BY <5>1, <3>2, <4>1, <4>2, <2>7 DEF FrameOK, About
        <5>3. <<m, n, g.nonce>> \in Keys
          BY <5>1, <5>2, <4>2, FrameParts DEF ConfirmOK, Keys
        <5>4. <<m, n, g.nonce>> \notin {radio[m][n].hw, radio[m][n].cache}
          BY <5>1, <5>2, <1>8 DEF ConfirmOK
        <5>5. <<m, n, g.nonce>> \notin {radio'[m][n].hw, radio'[m][n].cache}
          <6>1. \A k \in Keys \cap {radio'[m][n].hw, radio'[m][n].cache} : n # s
            BY <2>1, <2>4, <1>10, <1>7, Sentinels, AddedCache, <1>1
          <6> QED BY <6>1, <5>3, <5>4, <2>1, <2>4, <1>7
        <5> QED BY <5>1, <5>2, <5>5, <2>4, <1>2, <1>5 DEF ConfirmOK, Waits
      <4>6. ConfirmAckOK(n, g)'
        <5>1. SUFFICES ASSUME g.type = "PairConfirmAck" PROVE ConfirmAckOK(n, g)'
          BY DEF ConfirmAckOK
        <5>2. n = m /\ g.src \in Nodes /\ ConfirmAckOK(m, g)
          BY <5>1, <3>2, <4>2, FrameParts DEF FrameOK, About
        <5>3. \A h \in Held(rxq'[g.src]) : ~IsConfirm(h, m, g.key[3])
          <6>1. ASSUME NEW h \in Held(rxq'[g.src]) PROVE ~IsConfirm(h, m, g.key[3])
            <7>1. h \in Held(rxq[g.src]) \/ h = f
              BY <5>2, <2>6
            <7> QED BY <7>1, <5>1, <5>2, <2>2 DEF ConfirmAckOK, IsConfirm
          <6> QED BY <6>1
        <5> QED BY <5>1, <5>2, <5>3, <2>4, <1>2, <1>5 DEF ConfirmAckOK, Waits
      <4>7. UnpairOK(n, g)'
        BY <4>2 DEF FrameOK, UnpairOK
      <4> QED BY <4>3, <4>4, <4>5, <4>6, <4>7 DEF FrameOK
    <3> QED BY <2>6, <3>1, <3>2
  <2>10. \A n \in Nodes : \A g \in Held(rxq'[n]) :
           g.type = "PairConfirm" /\ g.src # m => g \in Held(rxq[n])
    BY <2>2, <2>6
  <2> QED BY <2>4, <2>5, <2>8, <2>9, <2>10, <1>2, <1>3, MasterStep
<1>11. ASSUME NEW t \in Send(a.radio, s)
       PROVE  t.radio \in RadioTables /\ \A p \in Nodes \ {s} : t.radio[p] = radio[m][p]
  BY <1>1, <1>7, SendResult
<1> QED BY <1>6, <1>7, <1>9, <1>10, <1>11

LEMMA OnDiscoveryOrder ==
  ASSUME CInv, NEW m \in Masters, OnDiscovery(m)
  PROVE  CInv'
<1>1. m \in Nodes /\ rxq[m] # <<>> /\ Head(rxq[m]).type = "Discovery" /\ TypeOK'
  BY OnDiscoveryType DEF OnDiscovery, HeadIs, Nodes, CInv
<1>2. /\ Head(rxq[m]).src \in Slaves /\ Head(rxq[m]).corr \in CorrIds
      /\ Pop(m) \in [Nodes -> Seq(Frames)] /\ Fewer(Pop(m))
  BY <1>1, PopQueues, FrameParts
<1>3. RequestPair(m, Head(rxq[m]).src, Head(rxq[m]).corr, Pop(m))
  BY DEF OnDiscovery
<1> QED BY <1>1, <1>2, <1>3, RequestPairOrder

LEMMA PairRequestOrder ==
  ASSUME CInv, NEW m \in Masters, NEW s \in Slaves, NEW c \in CorrIds, PairRequest(m, s, c)
  PROVE  CInv'
<1>1. rxq \in [Nodes -> Seq(Frames)] /\ Fewer(rxq) /\ RequestPair(m, s, c, rxq)
  BY SameQueues DEF CInv, TypeOK, PairRequest
<1>2. TypeOK'
  BY <1>1, RequestPairType DEF CInv, Nodes
<1> QED BY <1>1, <1>2, RequestPairOrder

(* When a master installs its key, every acknowledgement of an earlier      *)
(* handshake has left its queue: they stood before the PairInitAck.         *)
LEMMA OnPairInitAckOrder ==
  ASSUME CInv, NEW m \in Masters, OnPairInitAck(m)
  PROVE  CInv'
<1>1. /\ m \in Nodes /\ rxq[m] # <<>> /\ Head(rxq[m]).type = "PairInitAck" /\ TypeOK /\ TypeOK'
      /\ eng[m].st = "Pairing" /\ Waits(m, "MasterWaitInitAck") /\ ~Waits(m, "MasterWaitConfirmAck")
      /\ rxq' = Pop(m) /\ rec' = rec /\ attempts' = attempts /\ saved' = saved
  BY OnPairInitAckType DEF OnPairInitAck, AwaitsInitAck, HeadIs, Nodes, CInv, Waits
<1>2. PICK f \in Frames : f = Head(rxq[m])
  BY <1>1, PopQueues
<1>3. /\ InitAckOK(f) /\ f.type = "PairInitAck" /\ f.src \in Slaves /\ f.src \in Nodes
      /\ Fewer(rxq') /\ Pop(m) \in [Nodes -> Seq(Frames)]
  BY <1>1, <1>2, PopQueues, FrameParts DEF FrameOK
<1>4. /\ eng[m] \in Engines /\ HandshakeOK(eng[m]) /\ radio[m] \in RadioTables
      /\ MasterOK(m) /\ attempts'[m] >= attempts[m] /\ attempts'[m] = attempts[m]
  BY <1>1 DEF TypeOK, CInv
<1>5. PICK x \in Nonces, k \in Keys :
        /\ x = eng[m].nonce /\ x = <<m, attempts[m]>>
        /\ k = DeriveLmk(m, f.src, eng[m].nonce) /\ k = <<m, f.src, x>>
  <2>1. eng[m].nonce \in Nonces /\ eng[m].nonce = <<m, attempts[m]>>
    BY <1>1, <1>4 DEF HandshakeOK, MasterOK
  <2> QED BY <2>1, <1>3 DEF DeriveLmk, Keys
<1>6. k \in Entries /\ RemovePeer(radio[m], f.src) \in RadioTables
  BY <1>3, <1>4, RemovePeerResult DEF Entries
<1>7. PICK e \in Engines, g \in Engines :
        /\ e = [eng[m] EXCEPT !.lmk = k] /\ g = [e EXCEPT !.phase = "MasterSecureGuard"]
        /\ g.st = "Pairing" /\ g.phase = "MasterSecureGuard" /\ g.lmk = k /\ g.nonce = x
        /\ g.peer = eng[m].peer /\ g.deferredPeer = eng[m].deferredPeer
        /\ g.unpairPending = eng[m].unpairPending
  <2> DEFINE e == [eng[m] EXCEPT !.lmk = k]
             g == [e EXCEPT !.phase = "MasterSecureGuard"]
  <2>1. e \in Engines /\ g \in Engines
    BY <1>4 DEF Engines, PairPhases
  <2>2. /\ g.st = eng[m].st /\ g.phase = "MasterSecureGuard" /\ g.lmk = k /\ g.nonce = eng[m].nonce
        /\ g.peer = eng[m].peer /\ g.deferredPeer = eng[m].deferredPeer
        /\ g.unpairPending = eng[m].unpairPending
    BY <1>4 DEF Engines
  <2> QED BY <2>1, <2>2, <1>1, <1>5
<1>8. \/ FailPairing(m, eng[m], radio[m], f.src)
      \/ /\ f.nonce = eng[m].nonce
         /\ \E a \in AddPeer(RemovePeer(radio[m], f.src), f.src, k) :
              \/ FailPairing(m, e, a.radio, f.src)
              \/ /\ a.ok
                 /\ eng' = [eng EXCEPT ![m] = g] /\ radio' = [radio EXCEPT ![m] = a.radio]
  BY <1>2, <1>5, <1>7 DEF OnPairInitAck
<1>9. CASE FailPairing(m, eng[m], radio[m], f.src)
  BY <1>9, <1>1, <1>3, <1>4, MasterFails
<1>10. ASSUME NEW a \in AddPeer(RemovePeer(radio[m], f.src), f.src, k)
       PROVE  a.radio \in RadioTables /\ \A p \in Nodes \ {f.src} : a.radio[p] = radio[m][p]
  BY <1>3, <1>4, <1>6, RemovePeerResult, AddPeerResult
<1>11. ASSUME NEW a \in AddPeer(RemovePeer(radio[m], f.src), f.src, k), FailPairing(m, e, a.radio, f.src)
       PROVE  CInv'
  BY <1>11, <1>10, <1>1, <1>3, <1>4, MasterFails
<1>12. ASSUME f.nonce = eng[m].nonce, NEW a \in AddPeer(RemovePeer(radio[m], f.src), f.src, k), a.ok,
              eng' = [eng EXCEPT ![m] = g], radio' = [radio EXCEPT ![m] = a.radio]
       PROVE  CInv'
  <2>1. /\ OnlyAt(m) /\ eng'[m] = g /\ radio'[m] = a.radio
    BY <1>1, <1>12 DEF OnlyAt, TypeOK
  <2>2. f.src = eng[m].peer /\ f.nonce = x /\ f.nonce[1] = m
    <3>1. f.nonce = x
      BY <1>5, <1>12
    <3>2. f.nonce[1] = m
      BY <3>1, <1>5
    <3>3. f.src = eng[m].peer
      BY <3>1, <3>2, <1>1, <1>3, <1>5 DEF InitAckOK
    <3> QED BY <3>1, <3>2, <3>3
  <2>3. a.radio[f.src].hw = k /\ a.radio[f.src].cache = k
    BY <1>3, <1>6, <1>12, AddedCache
  <2>4. MasterOK(m)'
    BY <2>1, <2>2, <1>1, <1>4, <1>5, <1>7 DEF MasterOK, Waits
  <2>5. ~Waits(m, "MasterWaitInitAck")' /\ Waits(m, "MasterSecureGuard")' /\ ~Waits(m, "MasterWaitConfirmAck")'
    BY <2>1, <1>7 DEF Waits
  <2>6. ASSUME NEW n \in Nodes PROVE QueueOK(n)'
    <3>1. QueueOK(n) /\ Once(rxq'[n]) /\ \A y : NoAckAfter(rxq[n], y) => NoAckAfter(rxq'[n], y)
      BY <1>3 DEF CInv, Fewer
    <3>2. n # m => eng'[n] = eng[n]
      BY <2>1 DEF OnlyAt
    <3> QED BY <3>1, <3>2, <2>5 DEF QueueOK, Waits
  <2>7. \A h \in Held(rxq'[m]) : h.type # "PairConfirmAck"
    <3>1. NoAckAfter(rxq[m], x)
      BY <1>1, <1>5 DEF CInv, QueueOK
    <3> QED BY <3>1, <2>2, <1>1, <1>2, PopQueues
  <2>8. \A n \in Nodes : Held(rxq'[n]) \subseteq Held(rxq[n])
    BY <1>3 DEF Fewer
  <2>9. ASSUME NEW n \in Nodes, NEW h \in Held(rxq'[n]), About(m, n, h) PROVE FrameOK(n, h)'
    <3>1. h \in Held(rxq[n]) /\ FrameOK(n, h) /\ h \in Frames
      BY <2>8, HeldFrames DEF CInv
    <3>2. PairInitOK(n, h)' /\ InitAckOK(h)'
      <4>1. /\ eng[m].st = eng'[m].st /\ eng[m].peer = eng'[m].peer /\ eng[m].nonce = eng'[m].nonce
            /\ PairInitOK(n, h) /\ InitAckOK(h)
        BY <3>1, <2>1, <1>1, <1>5, <1>7 DEF FrameOK
      <4>2. /\ h.type = "PairInit" => h.src = m
            /\ h.type = "PairInitAck" => h.nonce[1] = m
        BY <2>9 DEF About
      <4>3. PairInitOK(n, h)'
        BY <4>1, <4>2, <1>1 DEF PairInitOK
      <4>4. InitAckOK(h)'
        BY <4>1, <4>2, <1>1 DEF InitAckOK
      <4> QED BY <4>3, <4>4
    <3>3. ConfirmOK(n, h)'
      <4>1. SUFFICES ASSUME h.type = "PairConfirm" PROVE ConfirmOK(n, h)'
        BY DEF ConfirmOK
      <4>2. h.src = m /\ h.nonce # x /\ ConfirmOK(n, h)
        BY <4>1, <3>1, <2>9, <1>1, <1>5 DEF FrameOK, About, ConfirmOK
      <4>3. <<m, n, h.nonce>> \notin {radio[m][n].hw, radio[m][n].cache}
        BY <4>1, <4>2, <1>1 DEF ConfirmOK
      <4>4. <<m, n, h.nonce>> \notin {a.radio[n].hw, a.radio[n].cache}
        BY <4>2, <4>3, <2>3, <1>5, <1>10
      <4> QED BY <4>1, <4>2, <4>4, <2>1, <2>5, <1>1, <1>7 DEF ConfirmOK
    <3>4. ConfirmAckOK(n, h)'
      BY <2>7, <2>9 DEF ConfirmAckOK, About
    <3>5. UnpairOK(n, h)'
      BY <3>1 DEF FrameOK, UnpairOK
    <3> QED BY <3>2, <3>3, <3>4, <3>5 DEF FrameOK
  <2> QED BY <2>1, <2>4, <2>6, <2>8, <2>9, <1>1, MasterStep
<1> QED BY <1>8, <1>9, <1>11, <1>12

(* When the guard time is over a master sends the one confirmation of its   *)
(* handshake: the nonce is new, so no other confirmation carries it.        *)
LEMMA TickSecureGuardOrder ==
  ASSUME CInv, NEW m \in Masters, TickSecureGuard(m)
  PROVE  CInv'
<1>1. /\ m \in Nodes /\ TypeOK /\ TypeOK'
      /\ Waits(m, "MasterSecureGuard") /\ ~Waits(m, "MasterWaitConfirmAck") /\ eng[m].st = "Pairing"
      /\ rec' = rec /\ attempts' = attempts /\ saved' = saved
  BY TickSecureGuardType DEF TickSecureGuard, Nodes, CInv, Waits
<1>2. /\ eng[m] \in Engines /\ HandshakeOK(eng[m]) /\ radio[m] \in RadioTables
      /\ MasterOK(m) /\ attempts'[m] >= attempts[m] /\ attempts'[m] = attempts[m]
      /\ rxq \in [Nodes -> Seq(Frames)]
  BY <1>1 DEF TypeOK, CInv
<1>3. PICK p \in Slaves, x \in Nonces, c \in CorrIds :
        /\ p = eng[m].peer /\ p \in Nodes /\ x = eng[m].nonce /\ x = <<m, attempts[m]>>
        /\ c = eng[m].corr
  BY <1>1, <1>2 DEF MasterOK, HandshakeOK, Nodes
<1>4. PICK e \in Engines :
        /\ e = [eng[m] EXCEPT !.phase = "MasterWaitConfirmAck"]
        /\ e.st = "Pairing" /\ e.phase = "MasterWaitConfirmAck" /\ e.lmk = eng[m].lmk
        /\ e.nonce = x /\ e.peer = p /\ e.deferredPeer = eng[m].deferredPeer
        /\ e.unpairPending = eng[m].unpairPending
  <2> DEFINE e == [eng[m] EXCEPT !.phase = "MasterWaitConfirmAck"]
  <2>1. e \in Engines
    BY <1>2 DEF Engines, PairPhases
  <2>2. /\ e.st = eng[m].st /\ e.phase = "MasterWaitConfirmAck" /\ e.lmk = eng[m].lmk
        /\ e.nonce = eng[m].nonce /\ e.peer = eng[m].peer
        /\ e.deferredPeer = eng[m].deferredPeer /\ e.unpairPending = eng[m].unpairPending
    BY <1>2 DEF Engines
  <2> QED BY <2>1, <2>2, <1>1, <1>3
<1>5. PICK t \in Send(radio[m], p) :
        \/ FailPairing(m, eng[m], t.radio, p) /\ rxq' = rxq
        \/ /\ eng' = [eng EXCEPT ![m] = e]
           /\ radio' = [radio EXCEPT ![m] = t.radio]
           /\ rxq' = Transmit(rxq, t, m, p, Frame("PairConfirm", m, c, x, t.key))
  BY <1>3, <1>4 DEF TickSecureGuard
<1>6. /\ t.radio \in RadioTables /\ t.key \in Entries
      /\ \A q \in Nodes \ {p} : t.radio[q] = radio[m][q]
  BY <1>2, <1>3, SendResult
<1>7. CASE FailPairing(m, eng[m], t.radio, p) /\ rxq' = rxq
  BY <1>7, <1>1, <1>2, <1>3, <1>6, MasterFails, SameQueues
<1>8. CASE /\ eng' = [eng EXCEPT ![m] = e]
           /\ radio' = [radio EXCEPT ![m] = t.radio]
           /\ rxq' = Transmit(rxq, t, m, p, Frame("PairConfirm", m, c, x, t.key))
  <2>1. PICK f \in Frames : /\ f = Frame("PairConfirm", m, c, x, t.key)
                            /\ f.type = "PairConfirm" /\ f.src = m /\ f.nonce = x
    <3>1. Frame("PairConfirm", m, c, x, t.key) \in Frames
      BY <1>1, <1>6, FrameResult
    <3> QED BY <3>1 DEF Frame
  <2>2. rxq' = Transmit(rxq, t, m, p, f)
    BY <2>1, <1>8
  <2>3. OnlyAt(m) /\ eng'[m] = e /\ radio'[m] = t.radio
    BY <1>1, <1>8 DEF OnlyAt, TypeOK
  <2>4. ~Waits(m, "MasterWaitInitAck")' /\ ~Waits(m, "MasterSecureGuard")' /\ Waits(m, "MasterWaitConfirmAck")'
    BY <2>3, <1>4 DEF Waits
  <2>5. MasterOK(m)'
    <3>1. /\ eng'[m].deferredPeer = NoNode /\ ~eng'[m].unpairPending
          /\ eng'[m].nonce = <<m, attempts'[m]>> /\ eng'[m].peer \in Slaves
      BY <2>3, <1>1, <1>2, <1>3, <1>4 DEF MasterOK
    <3>2. eng'[m].lmk = <<m, eng'[m].peer, eng'[m].nonce>>
      BY <2>3, <1>1, <1>2, <1>3, <1>4 DEF MasterOK
    <3>3. \A q \in Nodes : rec'[m][q] # None =>
            /\ rec'[m][q] \in saved' /\ rec'[m][q][3][2] <= attempts'[m]
            /\ rec'[m][q][3][2] < attempts'[m]
      BY <1>1, <1>2 DEF MasterOK
    <3> QED BY <3>1, <3>2, <3>3 DEF MasterOK
  (* The key is new: no confirmation with it is in flight, no record has it.*)
  <2>6. ASSUME NEW n \in Nodes, NEW h \in Held(rxq[n]) PROVE ~IsConfirm(h, m, x)
    <3>1. ConfirmOK(n, h)
      BY DEF CInv, FrameOK
    <3> QED BY <3>1, <1>1, <1>3 DEF ConfirmOK, IsConfirm
  <2>7. rec[m][p] # <<m, p, x>>
    <3>1. SUFFICES ASSUME rec[m][p] = <<m, p, x>> PROVE FALSE
      OBVIOUS
    <3>2. <<m, p, x>> \in Keys
      BY <1>3 DEF Keys
    <3>3. rec[m][p] # None
      BY <3>1, <3>2, Sentinels
    <3>4. rec[m][p][3][2] < attempts[m]
      BY <3>3, <1>1, <1>2, <1>3 DEF MasterOK
    <3>5. rec[m][p][3][2] = attempts[m]
      BY <3>1, <1>3
    <3>6. attempts[m] \in Nat
      BY <1>1 DEF TypeOK
    <3> QED BY <3>4, <3>5, <3>6
  <2>8. ASSUME NEW n \in Nodes
        PROVE  /\ Held(rxq'[n]) \subseteq Held(rxq[n]) \cup {f} /\ Once(rxq'[n])
               /\ n # p => Held(rxq'[n]) \subseteq Held(rxq[n])
               /\ \A y : NoAckAfter(rxq[n], y) => NoAckAfter(rxq'[n], y)
    <3>1. Once(rxq[n]) /\ \A h \in Held(rxq[n]) : ~IsConfirm(h, f.src, f.nonce)
      BY <2>1, <2>6 DEF CInv, QueueOK
    <3>2. Held(rxq'[n]) \subseteq Held(rxq[n]) \cup {f}
      BY <2>2, <1>2, TransmitQueues
    <3>3. n # p => rxq'[n] = rxq[n]
      BY <2>2, <1>2, TransmitQueues
    <3>4. Once(rxq'[n])
      BY <3>1, <2>2, <1>2, TransmitQueues
    <3>5. \A y : NoAckAfter(rxq[n], y) => NoAckAfter(rxq'[n], y)
      BY <2>1, <2>2, <1>2, TransmitQueues
    <3> QED BY <3>2, <3>3, <3>4, <3>5
  <2>9. ASSUME NEW n \in Nodes PROVE QueueOK(n)'
    <3>1. QueueOK(n)
      BY DEF CInv
    <3>2. n # m => eng'[n] = eng[n]
      BY <2>3 DEF OnlyAt
    <3> QED BY <3>1, <3>2, <2>4, <2>8 DEF QueueOK, Waits
  <2>10. ASSUME NEW n \in Nodes, NEW h \in Held(rxq'[n]), About(m, n, h) PROVE FrameOK(n, h)'
    <3>1. CASE h = f /\ h \notin Held(rxq[n])
      <4>1. n = p
        BY <3>1, <2>8
      <4>2. f.nonce[1] = m /\ f.nonce[2] <= attempts'[m]
        <5>1. f.nonce = <<m, attempts[m]>>
          BY <2>1, <1>3
        <5>2. attempts[m] \in Nat
          BY <1>1 DEF TypeOK
        <5>3. f.nonce[1] = m /\ f.nonce[2] = attempts[m]
          BY <5>1
        <5> QED BY <5>2, <5>3, <1>2
      <4>3. ConfirmOK(p, f)'
        BY <4>2, <2>1, <2>3, <2>4, <2>7, <1>1, <1>3, <1>4 DEF ConfirmOK
      <4> QED BY <4>1, <4>3, <3>1, <2>1 DEF FrameOK, PairInitOK, InitAckOK, ConfirmAckOK, UnpairOK
    <3>2. CASE h \in Held(rxq[n])
      <4>1. FrameOK(n, h) /\ h \in Frames
        BY <3>2, HeldFrames DEF CInv
      <4>2. PairInitOK(n, h)' /\ InitAckOK(h)'
        <5>1. /\ eng[m].st = eng'[m].st /\ eng[m].peer = eng'[m].peer /\ eng[m].nonce = eng'[m].nonce
              /\ PairInitOK(n, h) /\ InitAckOK(h)
          BY <4>1, <2>3, <1>1, <1>3, <1>4 DEF FrameOK
        <5>2. /\ h.type = "PairInit" => h.src = m
              /\ h.type = "PairInitAck" => h.nonce[1] = m
          BY <2>10 DEF About
        <5>3. PairInitOK(n, h)'
          BY <5>1, <5>2, <1>1 DEF PairInitOK
        <5>4. InitAckOK(h)'
          BY <5>1, <5>2, <1>1 DEF InitAckOK
        <5> QED BY <5>3, <5>4
      <4>3. ConfirmOK(n, h)'
        <5>1. SUFFICES ASSUME h.type = "PairConfirm" PROVE ConfirmOK(n, h)'
          BY DEF ConfirmOK
        <5>2. h.src = m /\ ConfirmOK(n, h)
          BY <5>1, <4>1, <2>10 DEF FrameOK, About
        <5>3. /\ <<m, n, h.nonce>> \notin {radio[m][n].hw, radio[m][n].cache}
              /\ <<m, n, h.nonce>> \in Keys
          BY <5>1, <5>2, <4>1, <1>1, FrameParts DEF ConfirmOK, Keys
        <5>4. <<m, n, h.nonce>> \notin {t.radio[n].hw, t.radio[n].cache}
          BY <5>3, <1>2, <1>3, SentKeys
        <5> QED BY <5>1, <5>2, <5>4, <2>3, <2>4, <1>1 DEF ConfirmOK
      <4>4. ConfirmAckOK(n, h)'
        BY <4>1, <2>10, <1>1 DEF FrameOK, ConfirmAckOK, About
      <4>5. UnpairOK(n, h)'
        BY <4>1 DEF FrameOK, UnpairOK
      <4> QED BY <4>2, <4>3, <4>4, <4>5 DEF FrameOK
    <3> QED BY <2>8, <3>1, <3>2
  <2>11. \A n \in Nodes : \A h \in Held(rxq'[n]) : h \in Held(rxq[n]) \/ h = f
    BY <2>8
  <2>12. /\ \A n \in Nodes : \A h \in Held(rxq'[n]) :
              (h \in Held(rxq[n]) /\ ~About(m, n, h)) \/ FrameOK(n, h)'
         /\ \A n \in Nodes : \A h \in Held(rxq'[n]) :
              h.type = "PairConfirm" /\ h.src # m => h \in Held(rxq[n])
    BY <2>1, <2>10, <2>11 DEF About
  <2> QED BY <2>3, <2>5, <2>9, <2>12, <1>1, MasterStep
<1> QED BY <1>5, <1>7, <1>8

(* The acknowledgement a master takes names the key its peer saved, and the *)
(* confirmation it answers has left the peer's queue.                       *)
LEMMA OnPairConfirmAckOrder ==
  ASSUME CInv, NEW m \in Masters, OnPairConfirmAck(m)
  PROVE  CInv'
<1>1. /\ m \in Nodes /\ rxq[m] # <<>> /\ Head(rxq[m]).type = "PairConfirmAck" /\ TypeOK /\ TypeOK'
      /\ Waits(m, "MasterWaitConfirmAck") /\ eng[m].st = "Pairing"
      /\ rxq' = Pop(m) /\ attempts' = attempts /\ saved' = saved
  BY OnPairConfirmAckType DEF OnPairConfirmAck, AwaitsConfirmAck, HeadIs, Nodes, CInv, Waits
<1>2. PICK f \in Frames : f = Head(rxq[m])
  BY <1>1, PopQueues
<1>3. /\ ConfirmAckOK(m, f) /\ f.type = "PairConfirmAck" /\ f.src \in Nodes
      /\ Fewer(rxq') /\ Pop(m) \in [Nodes -> Seq(Frames)]
  BY <1>1, <1>2, PopQueues, FrameParts DEF FrameOK
<1>4. /\ eng[m] \in Engines /\ HandshakeOK(eng[m]) /\ radio[m] \in RadioTables
      /\ MasterOK(m) /\ attempts[m] \in Nat /\ attempts'[m] >= attempts[m] /\ attempts'[m] = attempts[m]
  BY <1>1 DEF TypeOK, CInv
<1>5. PICK p \in Slaves, x \in Nonces, k \in Keys :
        /\ p = eng[m].peer /\ p \in Nodes /\ x = eng[m].nonce /\ x = <<m, attempts[m]>>
        /\ k = eng[m].lmk /\ k = <<m, p, x>>
  BY <1>1, <1>4 DEF MasterOK, HandshakeOK, Nodes, Keys
<1>6. f.key = k /\ k \in saved /\ k = <<m, f.src, k[3]>>
  BY <1>1, <1>3, <1>5 DEF ConfirmAckOK
<1>7. f.src = p /\ k[3] = x /\ x[2] = attempts[m]
  BY <1>5, <1>6
<1>8. \A g \in Held(rxq[p]) : ~IsConfirm(g, m, x)
  BY <1>3, <1>6, <1>7 DEF ConfirmAckOK
<1>9. PICK e \in Engines :
        /\ e = [eng[m] EXCEPT !.st = "Secured", !.phase = "Idle", !.nonce = NoNonce]
        /\ e.st = "Secured" /\ e.deferredPeer = eng[m].deferredPeer
  <2> DEFINE e == [eng[m] EXCEPT !.st = "Secured", !.phase = "Idle", !.nonce = NoNonce]
  <2>1. e \in Engines
    BY <1>4 DEF Engines, PairPhases, LinkStates
  <2>2. e.st = "Secured" /\ e.deferredPeer = eng[m].deferredPeer
    BY <1>4 DEF Engines
  <2> QED BY <2>1, <2>2
<1>10. PICK w \in PersistOutcomes :
         /\ rec' = SavePair(m, p, k, w)
         /\ \/ FailPairing(m, e, radio[m], p)
            \/ eng' = [eng EXCEPT ![m] = e] /\ radio' = radio
  BY <1>2, <1>5, <1>7, <1>9 DEF OnPairConfirmAck
<1>11. /\ \A i \in Nodes \ {m} : rec'[i] = rec[i]
       /\ rec'[m][p] \in {rec[m][p], k}
       /\ \A q \in Nodes \ {p} : rec'[m][q] = rec[m][q]
  BY <1>1, <1>5, <1>10 DEF SavePair, TypeOK
<1>12. /\ \A i \in Nodes \ {m} : eng'[i] = eng[i] /\ radio'[i] = radio[i]
       /\ eng'[m].st # "Pairing" /\ eng'[m].deferredPeer = NoNode
       /\ \A q \in Nodes : {radio'[m][q].hw, radio'[m][q].cache}
                             \subseteq {radio[m][q].hw, radio[m][q].cache, None}
  <2>1. CASE FailPairing(m, e, radio[m], p)
    <3>1. /\ eng'[m] = ResetPairing(e) /\ \A i \in Nodes \ {m} : eng'[i] = eng[i]
          /\ radio'[m] = RemovePeer(radio[m], p) /\ \A i \in Nodes \ {m} : radio'[i] = radio[i]
      BY <2>1, <1>1 DEF FailPairing, TypeOK
    <3>2. ResetPairing(e).st = "Unpaired" /\ ResetPairing(e).deferredPeer = NoNode
      BY DEF ResetPairing, Engines
    <3>3. \A q \in Nodes : {RemovePeer(radio[m], p)[q].hw, RemovePeer(radio[m], p)[q].cache}
                             \subseteq {radio[m][q].hw, radio[m][q].cache, None}
      BY <1>4 DEF RemovePeer, RadioTables
    <3> QED BY <3>1, <3>2, <3>3
  <2>2. CASE eng' = [eng EXCEPT ![m] = e] /\ radio' = radio
    <3>1. eng'[m] = e /\ \A i \in Nodes \ {m} : eng'[i] = eng[i]
      BY <2>2, <1>1 DEF TypeOK
    <3> QED BY <3>1, <2>2, <1>4, <1>9 DEF MasterOK
  <2> QED BY <1>10, <2>1, <2>2
<1>13. OnlyAt(m)
  BY <1>11, <1>12 DEF OnlyAt
<1>14. MasterOK(m)'
  <2>1. ASSUME NEW q \in Nodes, rec'[m][q] # None
        PROVE  rec'[m][q] \in saved' /\ rec'[m][q][3][2] <= attempts'[m]
    <3>1. CASE rec'[m][q] = k
      <4>1. k[3][2] = attempts[m]
        BY <1>7
      <4> QED BY <4>1, <3>1, <1>1, <1>4, <1>6
    <3>2. CASE rec'[m][q] = rec[m][q]
      BY <3>2, <2>1, <1>1, <1>4 DEF MasterOK
    <3> QED BY <3>1, <3>2, <1>5, <1>11
  <2> QED BY <2>1, <1>12 DEF MasterOK, Waits
<1>15. ASSUME NEW n \in Nodes, NEW h \in Held(rxq'[n]), h.type = "PairConfirm", h.src = m
       PROVE  /\ rec'[m][n] # <<m, n, h.nonce>>
              /\ <<m, n, h.nonce>> \notin {radio'[m][n].hw, radio'[m][n].cache}
  <2>1. h \in Held(rxq[n]) /\ h \in Frames /\ ConfirmOK(n, h)
    BY <1>3, <1>15, HeldFrames DEF Fewer, CInv, FrameOK
  <2>2. <<m, n, h.nonce>> # None
    BY <2>1, <1>15, FrameParts, Sentinels DEF ConfirmOK, Keys
  <2>3. n = p => h.nonce # x
    BY <2>1, <1>8, <1>15 DEF IsConfirm
  <2>4. rec[m][n] # <<m, n, h.nonce>> /\ k # <<m, n, h.nonce>>
    BY <2>1, <2>3, <1>5, <1>15 DEF ConfirmOK
  <2>5. <<m, n, h.nonce>> \notin {radio[m][n].hw, radio[m][n].cache}
    BY <2>1, <2>3, <1>5, <1>15 DEF ConfirmOK
  <2> QED BY <2>2, <2>4, <2>5, <1>11, <1>12
<1>16. \A n \in Nodes : /\ Once(rxq'[n]) /\ Held(rxq'[n]) \subseteq Held(rxq[n])
                        /\ \A y : NoAckAfter(rxq[n], y) => NoAckAfter(rxq'[n], y)
  BY <1>3 DEF Fewer
<1> QED BY <1>1, <1>4, <1>12, <1>13, <1>14, <1>15, <1>16, LeaveStep

(* The invariant holds at the start and in every step.                      *)
LEMMA InitOrder == Init => CInv
<1> SUFFICES ASSUME Init PROVE CInv
  OBVIOUS
<1>1. \A m \in Masters : MasterOK(m)
  BY DEF Init, NewEngine, MasterOK, Waits, Nodes
<1>2. \A n \in Nodes : rxq[n] = <<>> /\ Held(rxq[n]) = {}
  BY DEF Init, Held
<1>3. \A n \in Nodes : QueueOK(n)
  BY <1>2 DEF QueueOK, Once, NoAckAfter
<1> QED BY <1>1, <1>2, <1>3, InitType DEF CInv

LEMMA NextOrder == CInv /\ [Next]_vars /\ [BusyFromPeer]_vars => CInv'
<1> SUFFICES ASSUME CInv, [Next]_vars, [BusyFromPeer]_vars PROVE CInv'
  OBVIOUS
<1>1. CASE UNCHANGED vars
  <2>1. /\ eng' = eng /\ radio' = radio /\ rec' = rec /\ rxq' = rxq /\ attempts' = attempts
        /\ saved' = saved /\ TypeOK' /\ Fewer(rxq')
    BY <1>1, NextType, SameQueues DEF vars, CInv
  <2> QED BY <2>1, QuietStep
<1>2. ASSUME NEW m \in Masters, NEW s \in Slaves, NEW c \in CorrIds, PairRequest(m, s, c)
      PROVE  CInv'
  BY <1>2, PairRequestOrder
<1>3. ASSUME NEW m \in Masters, NEW s \in Slaves, NEW c \in CorrIds, UnpairRequest(m, s, c)
      PROVE  CInv'
  BY <1>3, UnpairRequestOrder
<1>4. ASSUME NEW s \in Slaves, TickDiscovery(s) PROVE CInv'
  BY <1>4, TickDiscoveryOrder
<1>5. ASSUME NEW n \in Nodes, HandleFrame(n), BusyFromPeer PROVE CInv'
  BY <1>5, OnDiscoveryOrder, OnPairInitOrder, OnPairInitAckOrder, OnPairConfirmOrder,
     OnPairConfirmAckOrder, OnPairBusyOrder, OnUnpairRequestOrder, OnUnpairAckOrder, IgnoreFrameOrder
     DEF HandleFrame
<1>6. ASSUME NEW n \in Nodes, TickTimer(n) PROVE CInv'
  BY <1>6, TickSecureGuardOrder, TickPairTimeoutOrder, TickUnpairTimeoutOrder,
     TickDeferredCleanupOrder DEF TickTimer
<1>7. ASSUME NEW n \in Nodes, Reboot(n) \/ HardReinit(n) PROVE CInv'
  BY <1>7, RebootOrder, HardReinitOrder
<1>8. ASSUME NEW n \in Nodes, NEW p \in Nodes, RemovePeerRequest(n, p) PROVE CInv'
  BY <1>8, RemovePeerRequestOrder
<1> QED BY <1>1, <1>2, <1>3, <1>4, <1>5, <1>6, <1>7, <1>8 DEF Next

(* A master commits a pairing only after the slave did: whatever key a      *)
(* master holds in flash was written by the slave first, whatever frames    *)
(* are lost, whoever restarts or re-initialises its radio, and however      *)
(* often pairing is retried - as long as PairBusy comes from the peer being *)
(* paired.                                                                  *)
THEOREM CommitOrder == Spec /\ [][BusyFromPeer]_vars => []SlaveCommitsFirst
<1>1. CInv => SlaveCommitsFirst
  BY DEF CInv, MasterOK, SlaveCommitsFirst
<1> QED BY <1>1, InitOrder, NextOrder, PTL DEF Spec

-----------------------------------------------------------------------------
(* Saved records and forgotten ones as steps of the contract.               *)

(* The two sides' records as the contract sees them.                        *)
MRec == [m \in Masters |-> [s \in Slaves |-> rec[m][s]]]
SRec == [s \in Slaves |-> [m \in Masters |-> rec[s][m]]]

(* What touches no record is no step of the contract: it stutters.          *)
LEMMA RecordsSame ==
  ASSUME rec' = rec, saved' = saved
  PROVE  UNCHANGED Contract!cvars
  BY DEF Contract!cvars

(* Erasing records of a device, for whichever peers, is the contract's      *)
(* forgetting step of its side.                                             *)
LEMMA ErasedIsForgotten ==
  ASSUME TypeOK, NEW n \in Nodes, NEW P, rec' \in ErasePairs(n, P), saved' = saved
  PROVE  Contract!Next
<1>1. PICK D : rec' = [rec EXCEPT ![n] = [p \in Nodes |-> IF p \in D THEN None ELSE rec[n][p]]]
  BY DEF ErasePairs
<1>2. /\ \A i \in Nodes \ {n} : rec'[i] = rec[i]
      /\ \A p \in Nodes : rec'[n][p] = IF p \in D THEN None ELSE rec[n][p]
  BY <1>1 DEF TypeOK
<1>3. CASE n \in Masters
  <2>1. PICK F \in SUBSET Slaves : F = D \cap Slaves
    OBVIOUS
  <2>2. \A i \in Slaves : i \in Nodes /\ i # n /\ (i \in F <=> i \in D)
    BY <1>3, <2>1, Roles DEF Nodes
  <2>3. SRec' = SRec
    BY <2>2, <1>2 DEF SRec
  <2>4. MRec' = [MRec EXCEPT ![n] = [s \in Slaves |-> IF s \in F THEN None ELSE MRec[n][s]]]
    <3>1. ASSUME NEW m \in Masters
          PROVE  MRec'[m] = [MRec EXCEPT ![n] = [s \in Slaves |-> IF s \in F THEN None ELSE MRec[n][s]]][m]
      <4>1. CASE m = n
        <5>1. MRec'[n] = [s \in Slaves |-> rec'[n][s]] /\ MRec[n] = [s \in Slaves |-> rec[n][s]]
          BY <1>3 DEF MRec
        <5>2. \A s \in Slaves : rec'[n][s] = IF s \in F THEN None ELSE rec[n][s]
          BY <2>2, <1>2
        <5>3. MRec'[n] = [s \in Slaves |-> IF s \in F THEN None ELSE MRec[n][s]]
          BY <5>1, <5>2
        <5>4. [MRec EXCEPT ![n] = [s \in Slaves |-> IF s \in F THEN None ELSE MRec[n][s]]][n]
                = [s \in Slaves |-> IF s \in F THEN None ELSE MRec[n][s]]
          BY <1>3 DEF MRec
        <5> QED BY <4>1, <5>3, <5>4
      <4>2. CASE m # n
        <5>1. rec'[m] = rec[m]
          BY <4>2, <1>2 DEF Nodes
        <5> QED BY <4>2, <5>1 DEF MRec
      <4> QED BY <4>1, <4>2
    <3> QED BY <3>1 DEF MRec
  <2>5. Contract!MasterForgets(n)
    BY <2>3, <2>4 DEF Contract!MasterForgets, MRec, SRec
  <2> QED BY <2>5, <1>3 DEF Contract!Next
<1>4. CASE n \in Slaves
  <2>1. PICK F \in SUBSET Masters : F = D \cap Masters
    OBVIOUS
  <2>2. \A i \in Masters : i \in Nodes /\ i # n /\ (i \in F <=> i \in D)
    BY <1>4, <2>1, Roles DEF Nodes
  <2>3. MRec' = MRec
    BY <2>2, <1>2 DEF MRec
  <2>4. SRec' = [SRec EXCEPT ![n] = [m \in Masters |-> IF m \in F THEN None ELSE SRec[n][m]]]
    <3>1. ASSUME NEW s \in Slaves
          PROVE  SRec'[s] = [SRec EXCEPT ![n] = [m \in Masters |-> IF m \in F THEN None ELSE SRec[n][m]]][s]
      <4>1. CASE s = n
        <5>1. SRec'[n] = [m \in Masters |-> rec'[n][m]] /\ SRec[n] = [m \in Masters |-> rec[n][m]]
          BY <1>4 DEF SRec
        <5>2. \A m \in Masters : rec'[n][m] = IF m \in F THEN None ELSE rec[n][m]
          BY <2>2, <1>2
        <5>3. SRec'[n] = [m \in Masters |-> IF m \in F THEN None ELSE SRec[n][m]]
          BY <5>1, <5>2
        <5>4. [SRec EXCEPT ![n] = [m \in Masters |-> IF m \in F THEN None ELSE SRec[n][m]]][n]
                = [m \in Masters |-> IF m \in F THEN None ELSE SRec[n][m]]
          BY <1>4 DEF SRec
        <5> QED BY <4>1, <5>3, <5>4
      <4>2. CASE s # n
        <5>1. rec'[s] = rec[s]
          BY <4>2, <1>2 DEF Nodes
        <5> QED BY <4>2, <5>1 DEF SRec
      <4> QED BY <4>1, <4>2
    <3> QED BY <3>1 DEF SRec
  <2>5. Contract!SlaveForgets(n)
    BY <2>3, <2>4 DEF Contract!SlaveForgets, MRec, SRec
  <2> QED BY <2>5, <1>4 DEF Contract!Next
<1> QED BY <1>3, <1>4 DEF Nodes

(* savePair at a master, of a key newer than its record that the slave has  *)
(* saved, is the contract's MasterCommit.                                   *)
LEMMA MasterSaves ==
  ASSUME TypeOK, NEW m \in Masters, NEW s \in Slaves, NEW k \in saved \cap Keys, k[1] = m, k[2] = s,
         rec[m][s] # None => rec[m][s][3][2] < k[3][2],
         rec' = [rec EXCEPT ![m][s] = k], saved' = saved
  PROVE  Contract!Next
<1>1. k \in saved \cap {j \in Keys : j[1] = m /\ j[2] = s}
  OBVIOUS
<1>2. /\ \A i \in Nodes \ {m} : rec'[i] = rec[i] /\ m \in Nodes /\ s \in Nodes
      /\ rec'[m][s] = k /\ \A p \in Nodes \ {s} : rec'[m][p] = rec[m][p]
  BY DEF TypeOK, Nodes
<1>3. SRec' = SRec
  <2>1. \A i \in Slaves : rec'[i] = rec[i]
    BY <1>2, Roles DEF Nodes
  <2> QED BY <2>1 DEF SRec
<1>4. MRec' = [MRec EXCEPT ![m][s] = k]
  <2>1. ASSUME NEW i \in Masters
        PROVE  MRec'[i] = [MRec EXCEPT ![m][s] = k][i]
    <3>1. CASE i = m
      <4>1. MRec'[m] = [p \in Slaves |-> rec'[m][p]] /\ MRec[m] = [p \in Slaves |-> rec[m][p]]
        BY DEF MRec
      <4>2. \A p \in Slaves : rec'[m][p] = IF p = s THEN k ELSE rec[m][p]
        BY <1>2 DEF Nodes
      <4>3. [MRec EXCEPT ![m][s] = k][m] = [MRec[m] EXCEPT ![s] = k]
        BY DEF MRec
      <4> QED BY <3>1, <4>1, <4>2, <4>3
    <3>2. CASE i # m
      BY <3>2, <1>2 DEF MRec, Nodes
    <3> QED BY <3>1, <3>2
  <2> QED BY <2>1 DEF MRec
<1>5. MRec[m][s] # None => MRec[m][s][3][2] < k[3][2]
  BY DEF MRec
<1>6. Contract!MasterCommit(m, s)
  BY <1>1, <1>3, <1>4, <1>5 DEF Contract!MasterCommit, MRec, SRec
<1> QED BY <1>6 DEF Contract!Next

(* A key drawn after every key the slave saved for the master.              *)
Newest(k, m, s) == \A j \in saved : j[1] = m /\ j[2] = s => j[3][2] < k[3][2]

(* savePair at a slave, of a key newer than every key it saved for that     *)
(* master, is the contract's SlaveCommit.                                   *)
LEMMA SlaveSaves ==
  ASSUME TypeOK, NEW m \in Masters, NEW s \in Slaves, NEW k \in Keys, k[1] = m, k[2] = s, Newest(k, m, s),
         rec' = [rec EXCEPT ![s][m] = k], saved' = saved \cup {k}
  PROVE  Contract!Next
<1>1. /\ k \in {j \in Keys : j[1] = m /\ j[2] = s}
      /\ \A j \in saved \cap {i \in Keys : i[1] = m /\ i[2] = s} : j[3][2] < k[3][2]
  BY DEF Newest
<1>2. /\ \A i \in Nodes \ {s} : rec'[i] = rec[i] /\ m \in Nodes /\ s \in Nodes
      /\ rec'[s][m] = k /\ \A p \in Nodes \ {m} : rec'[s][p] = rec[s][p]
  BY DEF TypeOK, Nodes
<1>3. MRec' = MRec
  <2>1. \A i \in Masters : rec'[i] = rec[i]
    BY <1>2, Roles DEF Nodes
  <2> QED BY <2>1 DEF MRec
<1>4. SRec' = [SRec EXCEPT ![s][m] = k]
  <2>1. ASSUME NEW i \in Slaves
        PROVE  SRec'[i] = [SRec EXCEPT ![s][m] = k][i]
    <3>1. CASE i = s
      <4>1. SRec'[s] = [p \in Masters |-> rec'[s][p]] /\ SRec[s] = [p \in Masters |-> rec[s][p]]
        BY DEF SRec
      <4>2. \A p \in Masters : rec'[s][p] = IF p = m THEN k ELSE rec[s][p]
        BY <1>2 DEF Nodes
      <4>3. [SRec EXCEPT ![s][m] = k][s] = [SRec[s] EXCEPT ![m] = k]
        BY DEF SRec
      <4> QED BY <3>1, <4>1, <4>2, <4>3
    <3>2. CASE i # s
      BY <3>2, <1>2 DEF SRec, Nodes
    <3> QED BY <3>1, <3>2
  <2> QED BY <2>1 DEF SRec
<1>5. Contract!SlaveCommit(s, m)
  BY <1>1, <1>3, <1>4 DEF Contract!SlaveCommit, MRec, SRec
<1> QED BY <1>5 DEF Contract!Next

-----------------------------------------------------------------------------
(* An initiation from master m.                                             *)
IsInit(f, m) == f.type = "PairInit" /\ f.src = m

(* The initiations of a master stand in a queue in the order of its         *)
(* attempts.                                                                *)
Rising(q, m) == \A i, j \in 1 .. Len(q) :
  i < j /\ IsInit(q[i], m) /\ IsInit(q[j], m) => q[i].nonce[2] < q[j].nonce[2]

(* The ages between a slave and a master: a key the slave saved for it is   *)
(* older than every initiation of the master still queued and no newer than *)
(* its last attempt; a handshake the slave is in is newer than every such   *)
(* key and older than every such initiation, and runs with the master that  *)
(* drew the nonce.                                                          *)
AgeOK(s, m) ==
  /\ Rising(rxq[s], m)
  /\ \A k \in saved : k[1] = m /\ k[2] = s =>
       /\ k[3][2] <= attempts[m]
       /\ \A f \in Held(rxq[s]) : IsInit(f, m) => k[3][2] < f.nonce[2]
  /\ eng[s].st = "Pairing" /\ eng[s].nonce[1] = m =>
       /\ eng[s].peer = m /\ eng[s].nonce[2] <= attempts[m]
       /\ \A k \in saved : k[1] = m /\ k[2] = s => k[3][2] < eng[s].nonce[2]
       /\ \A f \in Held(rxq[s]) : IsInit(f, m) => eng[s].nonce[2] < f.nonce[2]

(* The inductive invariant of the refinement.                               *)
AInv == CInv /\ \A s \in Slaves, m \in Masters : AgeOK(s, m)

(* Popping keeps the initiations of a queue in order, and the one popped is *)
(* older than those behind it.                                              *)
LEMMA TailRising ==
  ASSUME NEW S, NEW q \in Seq(S), q # <<>>, NEW m, Rising(q, m)
  PROVE  /\ Rising(Tail(q), m)
         /\ IsInit(Head(q), m) =>
              \A g \in Held(Tail(q)) : IsInit(g, m) => Head(q).nonce[2] < g.nonce[2]
<1>1. /\ Len(q) \in Nat \ {0} /\ Len(Tail(q)) = Len(q) - 1 /\ Head(q) = q[1]
      /\ \A i \in 1 .. Len(Tail(q)) : Tail(q)[i] = q[i + 1]
  OBVIOUS
<1> DEFINE r == Tail(q)
<1>2. /\ Len(r) = Len(q) - 1 /\ \A i \in 1 .. Len(r) : r[i] = q[i + 1]
  BY <1>1
<1> HIDE DEF r
<1>3. \A i \in 1 .. Len(r) : i \in Nat /\ i + 1 \in 1 .. Len(q) /\ 1 < i + 1
  BY <1>1, <1>2
<1>4. 1 \in 1 .. Len(q)
  BY <1>1
<1>5. ASSUME NEW i \in 1 .. Len(r), NEW j \in 1 .. Len(r), i < j, IsInit(r[i], m), IsInit(r[j], m)
      PROVE  r[i].nonce[2] < r[j].nonce[2]
  <2>1. i + 1 < j + 1
    BY <1>3, <1>5
  <2> QED BY <2>1, <1>2, <1>3, <1>5 DEF Rising
<1>6. ASSUME IsInit(q[1], m), NEW g \in Held(r), IsInit(g, m)
      PROVE  q[1].nonce[2] < g.nonce[2]
  <2>1. PICK i \in 1 .. Len(r) : g = r[i]
    BY <1>6 DEF Held
  <2>2. g = q[i + 1] /\ i + 1 \in 1 .. Len(q) /\ 1 < i + 1
    BY <2>1, <1>2, <1>3
  <2> QED BY <2>2, <1>4, <1>6 DEF Rising
<1>7. Rising(r, m)
  BY <1>5 DEF Rising
<1> QED BY <1>1, <1>6, <1>7 DEF r

(* Enqueueing keeps them in order when the new one is the newest, also when *)
(* the full queue drops its head.                                           *)
LEMMA EnqueueRising ==
  ASSUME NEW S, NEW q \in Seq(S), NEW f, NEW m, Rising(q, m),
         IsInit(f, m) => \A g \in Held(q) : IsInit(g, m) => g.nonce[2] < f.nonce[2]
  PROVE  Rising(Enqueue(q, f), m)
<1>1. PICK o \in Seq(S) : /\ Enqueue(q, f) = Append(o, f) /\ Rising(o, m)
                          /\ Held(o) \subseteq Held(q)
  <2>1. CASE Len(q) >= QMax
    <3>1. q # <<>> /\ Tail(q) \in Seq(S)
      BY <2>1, Bounds
    <3> QED BY <3>1, <2>1, TailRising, TailQueue DEF Enqueue
  <2>2. CASE ~(Len(q) >= QMax)
    BY <2>2 DEF Enqueue
  <2> QED BY <2>1, <2>2
<1> DEFINE r == Append(o, f)
<1>2. /\ Len(o) \in Nat /\ Len(r) = Len(o) + 1 /\ r[Len(o) + 1] = f
      /\ \A i \in 1 .. Len(o) : r[i] = o[i]
  OBVIOUS
<1> HIDE DEF r
<1>3. ASSUME NEW i \in 1 .. Len(r), NEW j \in 1 .. Len(r), i < j, IsInit(r[i], m), IsInit(r[j], m)
      PROVE  r[i].nonce[2] < r[j].nonce[2]
  <2>1. i \in 1 .. Len(o) /\ (j \in 1 .. Len(o) \/ j = Len(o) + 1)
    BY <1>2, <1>3
  <2>2. CASE j \in 1 .. Len(o)
    BY <2>1, <2>2, <1>1, <1>2, <1>3 DEF Rising
  <2>3. CASE j = Len(o) + 1
    <3>1. r[i] = o[i] /\ o[i] \in Held(q) /\ r[j] = f
      BY <2>1, <2>3, <1>1, <1>2 DEF Held
    <3> QED BY <3>1, <1>3
  <2> QED BY <2>1, <2>2, <2>3
<1>4. Rising(r, m)
  BY <1>3 DEF Rising
<1> QED BY <1>1, <1>4 DEF r

(* Rising, for the queues of all slaves.                                    *)
Rises(q) == \A s \in Slaves, m \in Masters : Rising(q[s], m)

(* The queues of the slaves gained at most initiations of a new attempt.    *)
Newer == \A s \in Slaves, m \in Masters :
  /\ Rising(rxq'[s], m)
  /\ \A f \in Held(rxq'[s]) : IsInit(f, m) => f \in Held(rxq[s]) \/ f.nonce[2] = attempts[m] + 1

(* Rising and TailRising for the queues as a handler leaves them.           *)
LEMMA PopRises ==
  ASSUME AInv, NEW n \in Nodes, rxq[n] # <<>>
  PROVE  /\ Pop(n) \in [Nodes -> Seq(Frames)] /\ Fewer(Pop(n)) /\ Rises(Pop(n))
         /\ \A m \in Masters : n \in Slaves /\ IsInit(Head(rxq[n]), m) =>
              \A g \in Held(Pop(n)[n]) : IsInit(g, m) => Head(rxq[n]).nonce[2] < g.nonce[2]
<1>1. rxq \in [Nodes -> Seq(Frames)] /\ \A s \in Slaves, m \in Masters : Rising(rxq[s], m)
  BY DEF AInv, CInv, TypeOK, AgeOK
<1>2. Pop(n)[n] = Tail(rxq[n]) /\ \A i \in Nodes \ {n} : Pop(n)[i] = rxq[i]
  BY <1>1 DEF Pop
<1>3. n \in Slaves => \A m \in Masters : Rising(rxq[n], m)
  BY <1>1
<1>4. rxq[n] \in Seq(Frames)
  BY <1>1
<1>5. Rises(Pop(n))
  BY <1>1, <1>2, <1>3, <1>4, TailRising DEF Rises, Nodes
<1>6. ASSUME NEW m \in Masters, n \in Slaves, IsInit(Head(rxq[n]), m)
      PROVE  \A g \in Held(Pop(n)[n]) : IsInit(g, m) => Head(rxq[n]).nonce[2] < g.nonce[2]
  BY <1>2, <1>3, <1>4, <1>6, TailRising
<1> QED BY <1>5, <1>6, PopQueues DEF AInv

(* The queues as they are have their initiations in order.                  *)
LEMMA SameRises == AInv => rxq \in [Nodes -> Seq(Frames)] /\ Fewer(rxq) /\ Rises(rxq)
  BY SameQueues DEF AInv, AgeOK, Rises, CInv, TypeOK

(* Queues that only lost frames satisfy Newer.                              *)
LEMMA FewerNewer ==
  ASSUME Fewer(rxq'), Rises(rxq')
  PROVE  Newer
  BY DEF Fewer, Rises, Newer, Nodes

(* So do queues that gained one frame, when an initiation sent is of the    *)
(* attempt being drawn.                                                     *)
LEMMA SentNewer ==
  ASSUME AInv, NEW q \in [Nodes -> Seq(Frames)], Fewer(q), Rises(q), NEW n, NEW p, NEW t, NEW f \in Frames,
         f.type = "PairInit" => f.nonce[2] = attempts[f.src] + 1,
         rxq' = Transmit(q, t, n, p, f)
  PROVE  Newer
<1>1. SUFFICES ASSUME NEW s \in Slaves, NEW m \in Masters
               PROVE  /\ Rising(rxq'[s], m)
                      /\ \A g \in Held(rxq'[s]) :
                           IsInit(g, m) => g \in Held(rxq[s]) \/ g.nonce[2] = attempts[m] + 1
  BY DEF Newer
<1>2. s \in Nodes /\ q[s] \in Seq(Frames) /\ Rising(q[s], m) /\ Held(q[s]) \subseteq Held(rxq[s])
  BY DEF Nodes, Rises, Fewer
<1>3. Held(rxq'[s]) \subseteq Held(q[s]) \cup {f}
  BY <1>2, TransmitQueues
<1>4. ASSUME NEW g \in Held(q[s]), IsInit(g, m), IsInit(f, m) PROVE g.nonce[2] < f.nonce[2]
  <2>1. g \in Held(rxq[s]) /\ g \in Frames /\ PairInitOK(s, g)
    BY <1>2, <1>4, HeldFrames DEF AInv, CInv, FrameOK
  <2>2. g.nonce[2] <= attempts[m] /\ f.nonce[2] = attempts[m] + 1
    BY <2>1, <1>4 DEF PairInitOK, IsInit
  <2>3. g.nonce[2] \in Nat /\ attempts[m] \in Nat
    BY <2>1, <1>4, FrameParts DEF IsInit, AInv, CInv, TypeOK
  <2> QED BY <2>2, <2>3
<1>5. rxq'[s] = q[s] \/ rxq'[s] = Enqueue(q[s], f)
  BY <1>2 DEF Transmit
<1>6. Rising(rxq'[s], m)
  BY <1>2, <1>4, <1>5, EnqueueRising
<1>7. ASSUME NEW g \in Held(rxq'[s]), IsInit(g, m)
      PROVE  g \in Held(rxq[s]) \/ g.nonce[2] = attempts[m] + 1
  BY <1>2, <1>3, <1>7 DEF IsInit
<1> QED BY <1>6, <1>7

-----------------------------------------------------------------------------
(* A slave leaves its handshake or keeps it.                                *)
SameNonce(s) == \/ eng'[s].st # "Pairing"
                \/ /\ eng'[s].st = eng[s].st /\ eng'[s].peer = eng[s].peer
                   /\ eng'[s].nonce = eng[s].nonce

(* What a step has to respect for the ages between a slave and a master to  *)
(* stay in order: no key is saved, attempts do not go back, the slave keeps *)
(* its handshake or leaves it, and the frames it gains are new.             *)
LEMMA AgeStep ==
  ASSUME AInv, TypeOK', NEW s \in Slaves, NEW m \in Masters, attempts'[m] >= attempts[m],
         \A k \in saved' : k[1] = m /\ k[2] = s => k \in saved,
         SameNonce(s) \/ eng'[s].nonce[1] # m, Newer
  PROVE  AgeOK(s, m)'
<1>1. /\ AgeOK(s, m) /\ Rising(rxq'[s], m) /\ attempts[m] \in Nat /\ attempts'[m] \in Nat
      /\ saved \subseteq Keys /\ HandshakeOK(eng[s])
      /\ \A f \in Held(rxq'[s]) : IsInit(f, m) => f \in Held(rxq[s]) \/ f.nonce[2] = attempts[m] + 1
  BY DEF AInv, CInv, TypeOK, Newer, Nodes
<1>2. ASSUME NEW k \in saved', k[1] = m /\ k[2] = s
      PROVE  /\ k[3][2] <= attempts'[m]
             /\ \A f \in Held(rxq'[s]) : IsInit(f, m) => k[3][2] < f.nonce[2]
  <2>1. k \in saved /\ k \in Keys /\ k[3][2] \in Nat
    BY <1>1, <1>2 DEF Keys, Nonces
  <2>2. /\ k[3][2] <= attempts[m]
        /\ \A f \in Held(rxq[s]) : IsInit(f, m) => k[3][2] < f.nonce[2]
    BY <2>1, <1>1, <1>2 DEF AgeOK
  <2>3. k[3][2] <= attempts'[m] /\ k[3][2] < attempts[m] + 1
    BY <2>1, <2>2, <1>1
  <2> QED BY <2>2, <2>3, <1>1
<1>3. ASSUME eng'[s].st = "Pairing", eng'[s].nonce[1] = m
      PROVE  /\ eng'[s].peer = m /\ eng'[s].nonce[2] <= attempts'[m]
             /\ \A k \in saved' : k[1] = m /\ k[2] = s => k[3][2] < eng'[s].nonce[2]
             /\ \A f \in Held(rxq'[s]) : IsInit(f, m) => eng'[s].nonce[2] < f.nonce[2]
  <2>1. /\ eng[s].st = "Pairing" /\ eng'[s].peer = eng[s].peer /\ eng'[s].nonce = eng[s].nonce
        /\ eng[s].nonce[1] = m
    BY <1>3 DEF SameNonce
  <2>2. eng[s].nonce[2] \in Nat
    BY <2>1, <1>1 DEF HandshakeOK, Nonces
  <2>3. /\ eng[s].peer = m /\ eng[s].nonce[2] <= attempts[m]
        /\ \A k \in saved : k[1] = m /\ k[2] = s => k[3][2] < eng[s].nonce[2]
        /\ \A f \in Held(rxq[s]) : IsInit(f, m) => eng[s].nonce[2] < f.nonce[2]
    BY <2>1, <1>1 DEF AgeOK
  <2>4. eng[s].nonce[2] <= attempts'[m] /\ eng[s].nonce[2] < attempts[m] + 1
    BY <2>2, <2>3, <1>1
  <2> QED BY <2>1, <2>3, <2>4, <1>1
<1> QED BY <1>1, <1>2, <1>3 DEF AgeOK

(* AgeOK of every pair.                                                     *)
Ages == \A s \in Slaves, m \in Masters : AgeOK(s, m)

(* A step of one device that saves no key keeps the ages of every pair.     *)
LEMMA DeviceAges ==
  ASSUME AInv, TypeOK', NEW n \in Nodes, \A i \in Nodes \ {n} : eng'[i] = eng[i],
         n \in Slaves => SameNonce(n), \A m \in Masters : attempts'[m] >= attempts[m],
         saved' = saved, Newer
  PROVE  Ages'
<1>1. \A s \in Slaves : SameNonce(s)
  BY DEF SameNonce, Nodes
<1> QED BY <1>1, AgeStep DEF Ages

(* What a step keeps, and what it is to a reader of the contract.           *)
Refines == [Contract!Next]_(Contract!cvars)

(* failPairing leaves the handshake of its device and no other.             *)
LEMMA FailOthers ==
  ASSUME TypeOK, NEW n \in Nodes, NEW p \in Nodes, NEW e \in Engines, NEW r \in RadioTables, FailPairing(n, e, r, p)
  PROVE  SameNonce(n) /\ \A i \in Nodes \ {n} : eng'[i] = eng[i]
  BY FailPairingDevice DEF SameNonce

(* Attempts that are not drawn do not go back.                              *)
LEMMA SameCount == TypeOK => \A m \in Masters : attempts[m] >= attempts[m]
  BY DEF TypeOK

(* requestPair draws a new attempt: its nonce is above those of all frames  *)
(* and keys of the master.                                                  *)
LEMMA RequestPairAges ==
  ASSUME AInv, TypeOK', NEW m \in Masters, NEW s \in Slaves, NEW c \in CorrIds,
         NEW q \in [Nodes -> Seq(Frames)], Fewer(q), Rises(q), RequestPair(m, s, c, q)
  PROVE  Ages' /\ Refines
<1> DEFINE x == <<m, attempts[m] + 1>>
           e == [eng[m] EXCEPT !.st = "Pairing", !.phase = "MasterWaitInitAck",
                               !.peer = s, !.corr = c, !.nonce = x]
<1>1. /\ m \in Nodes /\ s \in Nodes /\ m \notin Slaves /\ TypeOK
      /\ eng[m] \in Engines /\ radio[m] \in RadioTables
  BY Roles DEF Nodes, AInv, CInv, TypeOK
<1>2. x \in Nonces /\ x[2] = attempts[m] + 1
  <2>1. attempts[m] \in 0 .. MaxAttempts /\ attempts[m] < MaxAttempts
    BY <1>1 DEF TypeOK, RequestPair
  <2>2. attempts[m] + 1 \in 1 .. MaxAttempts
    BY <2>1, Bounds
  <2> QED BY <2>2 DEF Nonces
<1>3. e \in Engines
  BY <1>1, <1>2, Bounds DEF Engines, LinkStates, PairPhases
<1>4. rec' = rec /\ saved' = saved /\ \A i \in Masters : attempts'[i] >= attempts[i]
  BY <1>1 DEF RequestPair, TypeOK
<1>5. PICK a \in AddPeer(radio[m], s, Plain) :
        \/ FailPairing(m, e, a.radio, s) /\ rxq' = q
        \/ \E t \in Send(a.radio, s) :
             \/ FailPairing(m, e, t.radio, s) /\ rxq' = q
             \/ /\ eng' = [eng EXCEPT ![m] = e]
                /\ rxq' = Transmit(q, t, m, s, Frame("PairInit", m, c, x, t.key))
  BY DEF RequestPair
<1> HIDE DEF e, x
<1>6. a.radio \in RadioTables /\ \A t \in Send(a.radio, s) : t.radio \in RadioTables /\ t.key \in Entries
  <2>1. a.radio \in RadioTables
    BY <1>1, AddPeerResult DEF Entries
  <2> QED BY <2>1, <1>1, SendResult
<1>7. ASSUME NEW r \in RadioTables, FailPairing(m, e, r, s), rxq' = q
      PROVE  Newer /\ \A i \in Nodes \ {m} : eng'[i] = eng[i]
  BY <1>1, <1>3, <1>7, FailOthers, FewerNewer
<1>8. ASSUME NEW t \in Send(a.radio, s), eng' = [eng EXCEPT ![m] = e],
             rxq' = Transmit(q, t, m, s, Frame("PairInit", m, c, x, t.key))
      PROVE  Newer /\ \A i \in Nodes \ {m} : eng'[i] = eng[i]
  <2>1. PICK f \in Frames : /\ f = Frame("PairInit", m, c, x, t.key)
                            /\ f.src = m /\ f.nonce = x
    <3>1. Frame("PairInit", m, c, x, t.key) \in Frames
      BY <1>1, <1>2, <1>6, <1>8, FrameResult
    <3> QED BY <3>1 DEF Frame
  <2>2. rxq' = Transmit(q, t, m, s, f)
    BY <2>1, <1>8
  <2>3. f.nonce[2] = attempts[f.src] + 1
    BY <2>1, <1>2
  <2>4. Newer
    BY <2>2, <2>3, SentNewer
  <2>5. \A i \in Nodes \ {m} : eng'[i] = eng[i]
    BY <1>1, <1>8 DEF TypeOK
  <2> QED BY <2>4, <2>5
<1>9. Newer /\ \A i \in Nodes \ {m} : eng'[i] = eng[i]
  BY <1>5, <1>6, <1>7, <1>8
<1>10. Ages'
  BY <1>1, <1>4, <1>9, DeviceAges
<1> QED BY <1>4, <1>10, RecordsSame DEF Refines

(* By the command, and by a beacon:                                         *)
LEMMA PairRequestAges ==
  ASSUME AInv, TypeOK', NEW m \in Masters, NEW s \in Slaves, NEW c \in CorrIds, PairRequest(m, s, c)
  PROVE  Ages' /\ Refines
  BY SameRises, RequestPairAges DEF PairRequest

(* onDiscovery pairs on its own with the slave that announces itself.       *)
LEMMA OnDiscoveryAges ==
  ASSUME AInv, TypeOK', NEW m \in Masters, OnDiscovery(m)
  PROVE  Ages' /\ Refines
<1>1. /\ rxq[m] # <<>> /\ m \in Nodes /\ Head(rxq[m]).type = "Discovery"
      /\ RequestPair(m, Head(rxq[m]).src, Head(rxq[m]).corr, Pop(m))
  BY DEF OnDiscovery, HeadIs, Nodes
<1>2. Head(rxq[m]).src \in Slaves /\ Head(rxq[m]).corr \in CorrIds
  BY <1>1, PopQueues, FrameParts DEF AInv
<1> QED BY <1>1, <1>2, PopRises, RequestPairAges

(* A device pops the frame it handles and sends nothing to be initiated.    *)
LEMMA PoppedAges ==
  ASSUME AInv, TypeOK', NEW n \in Nodes, rxq[n] # <<>>, rxq' = Pop(n),
         \A i \in Nodes \ {n} : eng'[i] = eng[i], n \in Slaves => SameNonce(n),
         attempts' = attempts, saved' = saved
  PROVE  Ages'
<1>1. Newer
  BY PopRises, FewerNewer
<1>2. \A m \in Masters : attempts'[m] >= attempts[m]
  BY SameCount DEF AInv, CInv
<1> QED BY <1>1, <1>2, DeviceAges

(* A device that leaves the queues alone.                                   *)
LEMMA StillAges ==
  ASSUME AInv, TypeOK', NEW n \in Nodes, rxq' = rxq,
         \A i \in Nodes \ {n} : eng'[i] = eng[i], n \in Slaves => SameNonce(n),
         attempts' = attempts, saved' = saved
  PROVE  Ages'
<1>1. Newer
  BY SameRises, FewerNewer
<1>2. \A m \in Masters : attempts'[m] >= attempts[m]
  BY SameCount DEF AInv, CInv
<1> QED BY <1>1, <1>2, DeviceAges

(* A device that sends a frame other than an initiation.                    *)
LEMMA SentAges ==
  ASSUME AInv, TypeOK', NEW n \in Nodes, NEW q \in [Nodes -> Seq(Frames)], Fewer(q), Rises(q),
         NEW p, NEW t, NEW f \in Frames, f.type # "PairInit", rxq' = Transmit(q, t, n, p, f),
         \A i \in Nodes \ {n} : eng'[i] = eng[i], n \in Slaves => SameNonce(n),
         attempts' = attempts, saved' = saved
  PROVE  Ages'
<1>1. Newer
  BY SentNewer
<1>2. \A m \in Masters : attempts'[m] >= attempts[m]
  BY SameCount DEF AInv, CInv
<1> QED BY <1>1, <1>2, DeviceAges

(* The handlers that write no record: each stutters in the contract.        *)
LEMMA OnPairInitAckAges ==
  ASSUME AInv, TypeOK', NEW m \in Masters, OnPairInitAck(m)
  PROVE  Ages' /\ Refines
<1>1. /\ m \in Nodes /\ m \notin Slaves /\ rxq[m] # <<>> /\ rxq' = Pop(m)
      /\ rec' = rec /\ attempts' = attempts /\ saved' = saved
  BY Roles DEF OnPairInitAck, HeadIs, Nodes
<1>2. \A i \in Nodes \ {m} : eng'[i] = eng[i]
  BY DEF OnPairInitAck, FailPairing, AInv, CInv, TypeOK
<1>3. Ages'
  BY <1>1, <1>2, PoppedAges
<1> QED BY <1>1, <1>3, RecordsSame DEF Refines

(* onPairBusy ends the attempt and writes no record.                        *)
LEMMA OnPairBusyAges ==
  ASSUME AInv, TypeOK', NEW m \in Masters, OnPairBusy(m)
  PROVE  Ages' /\ Refines
<1>1. /\ m \in Nodes /\ m \notin Slaves /\ rxq[m] # <<>> /\ rxq' = Pop(m)
      /\ rec' = rec /\ attempts' = attempts /\ saved' = saved
  BY Roles DEF OnPairBusy, HeadIs, Nodes
<1>2. \A i \in Nodes \ {m} : eng'[i] = eng[i]
  BY DEF OnPairBusy, FailPairing, AInv, CInv, TypeOK
<1>3. Ages'
  BY <1>1, <1>2, PoppedAges
<1> QED BY <1>1, <1>3, RecordsSame DEF Refines

(* A frame no handler takes is popped.                                      *)
LEMMA IgnoreFrameAges ==
  ASSUME AInv, TypeOK', NEW n \in Nodes, IgnoreFrame(n)
  PROVE  Ages' /\ Refines
<1>1. /\ rxq[n] # <<>> /\ rxq' = Pop(n) /\ eng' = eng
      /\ rec' = rec /\ attempts' = attempts /\ saved' = saved
  BY DEF IgnoreFrame
<1>2. Ages'
  BY <1>1, PoppedAges DEF SameNonce
<1> QED BY <1>1, <1>2, RecordsSame DEF Refines

-----------------------------------------------------------------------------
(* The guard's end sends PairConfirm or fails; it writes no record.         *)
LEMMA TickSecureGuardAges ==
  ASSUME AInv, TypeOK', NEW m \in Masters, TickSecureGuard(m)
  PROVE  Ages' /\ Refines
<1>1. /\ m \in Nodes /\ m \notin Slaves /\ TypeOK
      /\ rec' = rec /\ attempts' = attempts /\ saved' = saved
  BY Roles DEF TickSecureGuard, Nodes, AInv, CInv
<1>2. /\ radio[m] \in RadioTables /\ eng[m].peer \in Nodes /\ eng[m].corr \in CorrIds /\ eng[m].nonce \in Nonces
  BY <1>1 DEF TypeOK, HandshakeOK, TickSecureGuard
<1>3. \A i \in Nodes \ {m} : eng'[i] = eng[i]
  BY <1>1 DEF TickSecureGuard, FailPairing, TypeOK
<1>4. PICK t \in Send(radio[m], eng[m].peer) :
        \/ rxq' = rxq
        \/ rxq' = Transmit(rxq, t, m, eng[m].peer,
                           Frame("PairConfirm", m, eng[m].corr, eng[m].nonce, t.key))
  BY DEF TickSecureGuard
<1>5. CASE rxq' = rxq
  BY <1>1, <1>3, <1>5, StillAges, RecordsSame DEF Refines
<1>6. CASE rxq' = Transmit(rxq, t, m, eng[m].peer,
                           Frame("PairConfirm", m, eng[m].corr, eng[m].nonce, t.key))
  <2>1. PICK f \in Frames : /\ f = Frame("PairConfirm", m, eng[m].corr, eng[m].nonce, t.key)
                            /\ f.type # "PairInit"
    <3>1. Frame("PairConfirm", m, eng[m].corr, eng[m].nonce, t.key) \in Frames
      BY <1>1, <1>2, SendResult, FrameResult
    <3> QED BY <3>1 DEF Frame
  <2>2. rxq' = Transmit(rxq, t, m, eng[m].peer, f)
    BY <2>1, <1>6
  <2>3. Ages'
    BY <2>1, <2>2, <1>1, <1>3, SameRises, SentAges
  <2> QED BY <2>3, <1>1, RecordsSame DEF Refines
<1> QED BY <1>4, <1>5, <1>6

(* requestUnpair sends its frame and writes no record.                      *)
LEMMA UnpairRequestAges ==
  ASSUME AInv, TypeOK', NEW m \in Masters, NEW s \in Slaves, NEW c \in CorrIds, UnpairRequest(m, s, c)
  PROVE  Ages' /\ Refines
<1>1. /\ m \in Nodes /\ s \in Nodes /\ m \notin Slaves /\ radio[m] \in RadioTables
      /\ rec' = rec /\ attempts' = attempts /\ saved' = saved
      /\ \A i \in Nodes \ {m} : eng'[i] = eng[i]
  BY Roles DEF UnpairRequest, Nodes, AInv, CInv, TypeOK
<1>2. PICK t \in Send(radio[m], s) :
        rxq' = Transmit(rxq, t, m, s, Frame("UnpairRequest", m, c, NoNonce, t.key))
  BY DEF UnpairRequest
<1>3. PICK f \in Frames : /\ f = Frame("UnpairRequest", m, c, NoNonce, t.key)
                          /\ f.type # "PairInit"
  <2>1. Frame("UnpairRequest", m, c, NoNonce, t.key) \in Frames
    BY <1>1, SendResult, FrameResult
  <2> QED BY <2>1 DEF Frame
<1>4. rxq' = Transmit(rxq, t, m, s, f)
  BY <1>2, <1>3
<1>5. Ages'
  BY <1>1, <1>3, <1>4, SameRises, SentAges
<1> QED BY <1>1, <1>5, RecordsSame DEF Refines

(* onUnpairRequest acknowledges; the record goes with the deferred cleanup. *)
LEMMA OnUnpairRequestAges ==
  ASSUME AInv, TypeOK', NEW n \in Nodes, OnUnpairRequest(n)
  PROVE  Ages' /\ Refines
<1>1. /\ rxq[n] # <<>> /\ radio[n] \in RadioTables /\ eng \in [Nodes -> Engines]
      /\ rec' = rec /\ attempts' = attempts /\ saved' = saved
  BY DEF OnUnpairRequest, HeadIs, AInv, CInv, TypeOK
<1>2. PICK g \in Frames : g = Head(rxq[n]) /\ g.src \in Nodes /\ g.corr \in CorrIds
  BY <1>1, PopQueues, FrameParts DEF AInv
<1>3. PICK t \in Send(radio[n], g.src) :
        /\ eng' = IF t.ok THEN [eng EXCEPT ![n].deferredPeer = g.src] ELSE eng
        /\ rxq' = Transmit(Pop(n), t, n, g.src, Frame("UnpairAck", n, g.corr, NoNonce, t.key))
  BY <1>2 DEF OnUnpairRequest
<1>4. SameNonce(n) /\ \A i \in Nodes \ {n} : eng'[i] = eng[i]
  BY <1>1, <1>3 DEF SameNonce, Engines
<1>5. PICK f \in Frames : /\ f = Frame("UnpairAck", n, g.corr, NoNonce, t.key)
                          /\ f.type # "PairInit"
  <2>1. Frame("UnpairAck", n, g.corr, NoNonce, t.key) \in Frames
    BY <1>1, <1>2, SendResult, FrameResult
  <2> QED BY <2>1 DEF Frame
<1>6. rxq' = Transmit(Pop(n), t, n, g.src, f)
  BY <1>3, <1>5
<1>7. Ages'
  BY <1>1, <1>4, <1>5, <1>6, PopRises, SentAges
<1> QED BY <1>1, <1>7, RecordsSame DEF Refines

(* resetPairing leaves the handshake.                                       *)
LEMMA ResetNonce ==
  ASSUME TypeOK, NEW n \in Nodes, eng' = [eng EXCEPT ![n] = ResetPairing(@)]
  PROVE  SameNonce(n) /\ \A i \in Nodes \ {n} : eng'[i] = eng[i]
<1>1. eng'[n] = ResetPairing(eng[n]) /\ \A i \in Nodes \ {n} : eng'[i] = eng[i]
  BY DEF TypeOK
<1>2. ResetPairing(eng[n]).st = "Unpaired"
  BY DEF TypeOK, Engines, ResetPairing
<1> QED BY <1>1, <1>2 DEF SameNonce

(* The acknowledged unpair erases the peer's record.                        *)
LEMMA OnUnpairAckAges ==
  ASSUME AInv, TypeOK', NEW n \in Nodes, OnUnpairAck(n)
  PROVE  Ages' /\ Refines
<1>1. /\ rxq[n] # <<>> /\ rxq' = Pop(n) /\ attempts' = attempts /\ saved' = saved /\ TypeOK
      /\ eng' = [eng EXCEPT ![n] = ResetPairing(@)] /\ rec' \in ErasePairs(n, {Head(rxq[n]).src})
  BY DEF OnUnpairAck, HeadIs, AInv, CInv
<1>2. Ages'
  BY <1>1, ResetNonce, PoppedAges
<1>3. Contract!Next
  BY <1>1, ErasedIsForgotten
<1> QED BY <1>2, <1>3 DEF Refines

(* So does the deferred cleanup on the other side,                          *)
LEMMA TickDeferredCleanupAges ==
  ASSUME AInv, TypeOK', NEW n \in Nodes, TickDeferredCleanup(n)
  PROVE  Ages' /\ Refines
<1>1. /\ rxq' = rxq /\ attempts' = attempts /\ saved' = saved /\ TypeOK
      /\ eng' = [eng EXCEPT ![n] = ResetPairing(@)] /\ rec' \in ErasePairs(n, {eng[n].deferredPeer})
  BY DEF TickDeferredCleanup, AInv, CInv
<1>2. Ages'
  BY <1>1, ResetNonce, StillAges
<1>3. Contract!Next
  BY <1>1, ErasedIsForgotten
<1> QED BY <1>2, <1>3 DEF Refines

(* and removePeer, with or without its link.                                *)
LEMMA RemovePeerRequestAges ==
  ASSUME AInv, TypeOK', NEW n \in Nodes, NEW p \in Nodes, RemovePeerRequest(n, p)
  PROVE  Ages' /\ Refines
<1>1. /\ rxq' = rxq /\ attempts' = attempts /\ saved' = saved /\ TypeOK
      /\ eng' = [eng EXCEPT ![n] = ResetPairing(@)] \/ eng' = eng
      /\ rec' \in ErasePairs(n, {p})
  BY DEF RemovePeerRequest, AInv, CInv
<1>2. SameNonce(n) /\ \A i \in Nodes \ {n} : eng'[i] = eng[i]
  BY <1>1, ResetNonce DEF SameNonce
<1>3. Ages'
  BY <1>1, <1>2, StillAges
<1>4. Contract!Next
  BY <1>1, ErasedIsForgotten
<1> QED BY <1>3, <1>4 DEF Refines

(* A pairing that times out fails and leaves the records.                   *)
LEMMA TickPairTimeoutAges ==
  ASSUME AInv, TypeOK', NEW n \in Nodes, TickPairTimeout(n)
  PROVE  Ages' /\ Refines
<1>1. /\ rxq' = rxq /\ rec' = rec /\ attempts' = attempts /\ saved' = saved /\ TypeOK
      /\ FailPairing(n, eng[n], radio[n], eng[n].peer) /\ eng[n].peer \in Nodes
      /\ eng[n] \in Engines /\ radio[n] \in RadioTables
  BY DEF TickPairTimeout, AInv, CInv, TypeOK, HandshakeOK
<1>2. Ages'
  BY <1>1, FailOthers, StillAges
<1> QED BY <1>1, <1>2, RecordsSame DEF Refines

(* An unpair that times out leaves them too.                                *)
LEMMA TickUnpairTimeoutAges ==
  ASSUME AInv, TypeOK', NEW n \in Nodes, TickUnpairTimeout(n)
  PROVE  Ages' /\ Refines
<1>1. /\ rxq' = rxq /\ rec' = rec /\ attempts' = attempts /\ saved' = saved /\ eng \in [Nodes -> Engines]
      /\ eng' = [eng EXCEPT ![n].unpairPending = FALSE]
  BY DEF TickUnpairTimeout, AInv, CInv, TypeOK
<1>2. SameNonce(n) /\ \A i \in Nodes \ {n} : eng'[i] = eng[i]
  BY <1>1 DEF SameNonce, Engines
<1>3. Ages'
  BY <1>1, <1>2, StillAges
<1> QED BY <1>1, <1>3, RecordsSame DEF Refines

(* A restore erases the records it cannot install, and starts no handshake. *)
LEMMA RestoreNonce ==
  ASSUME TypeOK, NEW n \in Nodes, NEW e \in Engines, NEW K \in SUBSET PersistedPeers(n), Restore(n, e, K),
         saved' = saved
  PROVE  /\ \A i \in Nodes \ {n} : eng'[i] = eng[i]
         /\ eng'[n] = e \/ eng'[n].st = "Secured"
         /\ Contract!Next
<1>1. rec' \in ErasePairs(n, PersistedPeers(n) \ K)
  BY DEF Restore
<1> QED BY <1>1, RestoredKeys, ErasedIsForgotten DEF OnlyAt

(* A hard reinit restores and keeps the queues.                             *)
LEMMA HardReinitAges ==
  ASSUME AInv, TypeOK', NEW n \in Nodes, HardReinit(n)
  PROVE  Ages' /\ Refines
<1>1. PICK K \in SUBSET PersistedPeers(n) : Restore(n, eng[n], K)
  BY DEF HardReinit
<1>2. /\ rxq' = rxq /\ attempts' = attempts /\ saved' = saved /\ TypeOK /\ eng[n] \in Engines
  BY DEF HardReinit, AInv, CInv, TypeOK
<1>3. SameNonce(n) /\ Contract!Next /\ \A i \in Nodes \ {n} : eng'[i] = eng[i]
  BY <1>1, <1>2, RestoreNonce DEF SameNonce
<1>4. Ages'
  BY <1>2, <1>3, StillAges
<1> QED BY <1>3, <1>4 DEF Refines

(* A restart empties the queue of its device and restores.                  *)
LEMMA RebootAges ==
  ASSUME AInv, TypeOK', NEW n \in Nodes, Reboot(n)
  PROVE  Ages' /\ Refines
<1>1. PICK K \in SUBSET PersistedPeers(n) : Restore(n, NewEngine, K)
  BY DEF Reboot
<1>2. /\ rxq' = [rxq EXCEPT ![n] = <<>>] /\ attempts' = attempts /\ saved' = saved /\ TypeOK
      /\ NewEngine \in Engines /\ NewEngine.st = "Unpaired"
  BY DEF Reboot, AInv, CInv, NewEngine, Engines, LinkStates, PairPhases
<1>3. SameNonce(n) /\ Contract!Next /\ \A i \in Nodes \ {n} : eng'[i] = eng[i]
  BY <1>1, <1>2, RestoreNonce DEF SameNonce
<1>4. Newer
  <2>1. SUFFICES ASSUME NEW s \in Slaves, NEW m \in Masters
                 PROVE  /\ Rising(rxq'[s], m)
                        /\ \A g \in Held(rxq'[s]) : IsInit(g, m) => g \in Held(rxq[s])
    BY DEF Newer
  <2>2. s \in Nodes /\ Rising(rxq[s], m) /\ rxq \in [Nodes -> Seq(Frames)]
    BY DEF Nodes, AInv, CInv, TypeOK, AgeOK
  <2>3. CASE s = n
    <3>1. rxq'[s] = <<>>
      BY <2>2, <2>3, <1>2
    <3> QED BY <3>1 DEF Rising, Held
  <2>4. CASE s # n
    BY <2>2, <2>4, <1>2
  <2> QED BY <2>3, <2>4
<1>5. \A m \in Masters : attempts'[m] >= attempts[m]
  BY <1>2, SameCount
<1>6. Ages'
  BY <1>2, <1>3, <1>4, <1>5, DeviceAges
<1> QED BY <1>3, <1>6 DEF Refines

(* A beacon is queued at masters only.                                      *)
LEMMA TickDiscoveryAges ==
  ASSUME AInv, TypeOK', NEW s \in Slaves, TickDiscovery(s)
  PROVE  Ages' /\ Refines
<1>1. /\ rec' = rec /\ attempts' = attempts /\ saved' = saved /\ eng' = eng /\ TypeOK /\ s \in Nodes
  BY DEF TickDiscovery, AInv, CInv, Nodes
<1>2. \A i \in Slaves : rxq'[i] = rxq[i]
  BY Roles DEF TickDiscovery, Nodes
<1>3. Newer
  BY <1>2 DEF Newer, AInv, AgeOK
<1>4. \A m \in Masters : attempts'[m] >= attempts[m]
  BY <1>1, SameCount
<1>5. Ages'
  BY <1>1, <1>3, <1>4, DeviceAges DEF SameNonce
<1> QED BY <1>1, <1>5, RecordsSame DEF Refines

(* A slave that adopts an initiation: its nonce is above every key it saved *)
(* for that master and below the initiations behind it.                     *)
LEMMA AdoptedAge ==
  ASSUME AInv, TypeOK', NEW s \in Slaves, NEW m \in Masters, NEW f \in Frames, rxq[s] # <<>>,
         f = Head(rxq[s]), IsInit(f, m), rxq'[s] = Pop(s)[s], attempts' = attempts, saved' = saved,
         eng'[s].peer = m, eng'[s].nonce = f.nonce, Newer
  PROVE  AgeOK(s, m)'
<1>1. /\ AgeOK(s, m) /\ Rising(rxq'[s], m) /\ s \in Nodes /\ f \in Held(rxq[s])
      /\ PairInitOK(s, f) /\ f.nonce[2] <= attempts[m] /\ Held(rxq'[s]) \subseteq Held(rxq[s])
  <2>1. s \in Nodes /\ rxq[s] \in Seq(Frames) /\ AgeOK(s, m) /\ Rising(rxq'[s], m)
    BY DEF Nodes, AInv, CInv, TypeOK, Newer
  <2>2. f \in Held(rxq[s])
    BY <2>1, TailQueue
  <2>3. PairInitOK(s, f)
    BY <2>1, <2>2 DEF AInv, CInv, FrameOK
  <2>4. f.nonce[2] <= attempts[m]
    BY <2>3 DEF PairInitOK, IsInit
  <2>5. Held(rxq'[s]) \subseteq Held(rxq[s])
    BY <2>1, PopQueues DEF AInv, Fewer
  <2> QED BY <2>1, <2>2, <2>3, <2>4, <2>5
<1>2. \A g \in Held(rxq'[s]) : IsInit(g, m) => f.nonce[2] < g.nonce[2]
  BY <1>1, PopRises
<1>3. \A k \in saved : k[1] = m /\ k[2] = s => /\ k[3][2] <= attempts[m] /\ k[3][2] < f.nonce[2]
                                               /\ \A g \in Held(rxq'[s]) : IsInit(g, m) => k[3][2] < g.nonce[2]
  BY <1>1 DEF AgeOK
<1> QED BY <1>1, <1>2, <1>3 DEF AgeOK

(* onPairInit adopts the initiation, or answers Busy, or fails; it writes   *)
(* no record.                                                               *)
LEMMA OnPairInitAges ==
  ASSUME AInv, TypeOK', NEW s \in Slaves, OnPairInit(s)
  PROVE  Ages' /\ Refines
<1>1. /\ rxq[s] # <<>> /\ s \in Nodes /\ s \notin Masters /\ Head(rxq[s]).type = "PairInit"
      /\ rec' = rec /\ attempts' = attempts /\ saved' = saved /\ TypeOK
      /\ radio[s] \in RadioTables /\ eng[s] \in Engines
  BY Roles DEF OnPairInit, HeadIs, Nodes, AInv, CInv, TypeOK
<1>2. PICK f \in Frames : /\ f = Head(rxq[s]) /\ f.type = "PairInit" /\ f.src \in Masters /\ f.src \in Nodes
                          /\ f.corr \in CorrIds /\ f.nonce \in Nonces /\ PairInitOK(s, f)
  BY <1>1, PopQueues, FrameParts DEF AInv, FrameOK
<1>3. PICK m \in Masters : m = f.src /\ IsInit(f, m) /\ f.nonce[1] = m
  BY <1>2 DEF IsInit, PairInitOK
<1>4. /\ Pop(s) \in [Nodes -> Seq(Frames)] /\ Fewer(Pop(s)) /\ Rises(Pop(s))
  BY <1>1, PopRises
<1>5. PICK k \in Keys : k = DeriveLmk(m, s, f.nonce) /\ k \in Entries
  <2>1. DeriveLmk(m, s, f.nonce) \in Keys
    BY <1>2 DEF DeriveLmk, Keys
  <2>2. Keys \subseteq Entries
    BY DEF Entries
  <2> QED BY <2>1, <2>2
<1>6. PICK e \in Engines, d \in Engines :
        /\ e = [eng[s] EXCEPT !.st = "Pairing", !.phase = "SlaveWaitConfirm",
                              !.peer = m, !.corr = f.corr, !.nonce = f.nonce]
        /\ d = [e EXCEPT !.lmk = k]
        /\ d.peer = m /\ d.nonce = f.nonce
  <2> DEFINE e == [eng[s] EXCEPT !.st = "Pairing", !.phase = "SlaveWaitConfirm",
                                 !.peer = m, !.corr = f.corr, !.nonce = f.nonce]
  <2>1. e \in Engines
    BY <1>1, <1>2, <1>3, Bounds DEF Engines, LinkStates, PairPhases, Nodes
  <2>2. [e EXCEPT !.lmk = k] \in Engines /\ [e EXCEPT !.lmk = k].peer = m
        /\ [e EXCEPT !.lmk = k].nonce = f.nonce
    BY <1>1, <2>1 DEF Engines
  <2> QED BY <2>1, <2>2
<1>7. Refines
  BY <1>1, RecordsSame DEF Refines
<1>8. /\ \A a \in AddPeer(radio[s], m, Plain) : a.radio \in RadioTables
      /\ \A r \in RadioTables : \A t \in Send(r, m) : t.radio \in RadioTables /\ t.key \in Entries
      /\ \A r \in RadioTables : \A b \in AddPeer(RemovePeer(r, m), m, k) : b.radio \in RadioTables
  <2>1. Plain \in Entries /\ m \in Nodes
    BY <1>2, <1>3 DEF Entries
  <2> QED BY <2>1, <1>1, <1>5, AddPeerResult, SendResult, RemovePeerResult
<1>9. ASSUME NEW ty \in {"PairBusy", "PairInitAck"}, NEW x, NEW t, NEW key \in Entries,
             Frame(ty, s, f.corr, x, key) \in Frames,
             rxq' = Transmit(Pop(s), t, s, m, Frame(ty, s, f.corr, x, key))
      PROVE  Newer /\ rxq'[s] = Pop(s)[s]
  <2>1. PICK g \in Frames : g = Frame(ty, s, f.corr, x, key) /\ g.type # "PairInit"
    BY <1>9 DEF Frame
  <2>2. rxq' = Transmit(Pop(s), t, s, m, g)
    BY <2>1, <1>9
  <2>3. rxq'[s] = Pop(s)[s]
    BY <2>2, <1>1, <1>3, <1>4 DEF Transmit
  <2> QED BY <2>1, <2>2, <2>3, <1>4, SentNewer
<1>10. rxq' = Pop(s) => Newer /\ rxq'[s] = Pop(s)[s]
  BY <1>4, FewerNewer
<1>11. \/ BusyReject(s, f) \/ Prepare(s, f)
  BY <1>2 DEF OnPairInit
<1>12. CASE BusyReject(s, f)
  <2>1. PICK a \in AddPeer(radio[s], m, Plain) : \E t \in Send(a.radio, m) :
          rxq' = Transmit(Pop(s), t, s, m, Frame("PairBusy", s, f.corr, NoNonce, t.key))
    BY <1>3, <1>12 DEF BusyReject
  <2>2. PICK t \in Send(a.radio, m) :
          rxq' = Transmit(Pop(s), t, s, m, Frame("PairBusy", s, f.corr, NoNonce, t.key))
    BY <2>1
  <2>3. t.key \in Entries
    BY <1>8
  <2>4. Frame("PairBusy", s, f.corr, NoNonce, t.key) \in Frames
    BY <2>3, <1>1, <1>2, FrameResult
  <2>5. Newer
    BY <2>2, <2>3, <2>4, <1>9
  <2>6. eng' = eng /\ \A i \in Masters : attempts'[i] >= attempts[i]
    BY <1>1, <1>12, SameCount DEF BusyReject
  <2>7. Ages'
    BY <2>5, <2>6, <1>1, DeviceAges DEF SameNonce
  <2> QED BY <2>7, <1>7
<1>13. CASE Prepare(s, f)
  <2>1. PICK a \in AddPeer(radio[s], m, Plain) :
          \/ FailPairing(s, e, a.radio, m) /\ rxq' = Pop(s)
          \/ \E t \in Send(a.radio, m) :
               \/ FailPairing(s, e, t.radio, m) /\ rxq' = Pop(s)
               \/ /\ rxq' = Transmit(Pop(s), t, s, m, Frame("PairInitAck", s, f.corr, f.nonce, t.key))
                  /\ \E b \in AddPeer(RemovePeer(t.radio, m), m, k) :
                       \/ FailPairing(s, d, b.radio, m)
                       \/ eng' = [eng EXCEPT ![s] = d]
    BY <1>3, <1>5, <1>6, <1>13 DEF Prepare
  <2>2. a.radio \in RadioTables /\ m \in Nodes
    BY <1>2, <1>3, <1>8
  <2>3. ASSUME NEW t \in Send(a.radio, m)
        PROVE  t.key \in Entries /\ Frame("PairInitAck", s, f.corr, f.nonce, t.key) \in Frames
    <3>1. t.key \in Entries
      BY <2>2, <1>8
    <3> QED BY <3>1, <1>1, <1>2, FrameResult
  <2>4. Newer /\ rxq'[s] = Pop(s)[s]
    BY <2>1, <2>3, <1>9, <1>10
  <2>5. \/ SameNonce(s) /\ \A i \in Nodes \ {s} : eng'[i] = eng[i]
        \/ eng' = [eng EXCEPT ![s] = d]
    BY <2>1, <2>2, <1>1, <1>6, <1>8, FailOthers
  <2>6. \A i \in Masters : attempts'[i] >= attempts[i]
    BY <1>1, SameCount
  <2>7. CASE SameNonce(s) /\ \A i \in Nodes \ {s} : eng'[i] = eng[i]
    BY <2>4, <2>6, <2>7, <1>1, <1>7, DeviceAges
  <2>8. CASE eng' = [eng EXCEPT ![s] = d]
    <3>1. eng'[s] = d /\ \A i \in Nodes \ {s} : eng'[i] = eng[i]
      BY <2>8, <1>1 DEF TypeOK
    <3>2. AgeOK(s, m)'
      BY <3>1, <2>4, <1>1, <1>2, <1>3, <1>6, AdoptedAge
    <3>3. ASSUME NEW i \in Slaves, NEW j \in Masters, i # s \/ j # m PROVE AgeOK(i, j)'
      <4>1. SameNonce(i) \/ eng'[i].nonce[1] # j
        <5>1. CASE i = s
          BY <5>1, <3>1, <3>3, <1>3, <1>6
        <5>2. CASE i # s
          BY <5>2, <3>1 DEF SameNonce, Nodes
        <5> QED BY <5>1, <5>2
      <4>2. \A y \in saved' : y[1] = j /\ y[2] = i => y \in saved
        BY <1>1
      <4> QED BY <4>1, <4>2, <2>4, <2>6, AgeStep
    <3> QED BY <3>2, <3>3, <1>7 DEF Ages
  <2> QED BY <2>5, <2>7, <2>8
<1> QED BY <1>11, <1>12, <1>13

(* The key a slave saves is newer than any it saved for that master before. *)
LEMMA OnPairConfirmAges ==
  ASSUME AInv, TypeOK', NEW s \in Slaves, OnPairConfirm(s)
  PROVE  Ages' /\ Refines
<1>1. /\ rxq[s] # <<>> /\ s \in Nodes /\ s \notin Masters /\ Head(rxq[s]).type = "PairConfirm"
      /\ attempts' = attempts /\ TypeOK /\ HandshakeOK(eng[s]) /\ eng[s].st = "Pairing"
      /\ radio[s] \in RadioTables /\ eng[s] \in Engines
  BY Roles DEF OnPairConfirm, AwaitsConfirm, HeadIs, Nodes, AInv, CInv, TypeOK
<1>2. PICK f \in Frames : /\ f = Head(rxq[s]) /\ f.type = "PairConfirm" /\ f.src \in Masters /\ f.src \in Nodes
                          /\ f.corr \in CorrIds /\ f.nonce \in Nonces /\ ConfirmOK(s, f)
  BY <1>1, PopQueues, FrameParts DEF AInv, FrameOK
<1>3. PICK m \in Masters, x \in Nonces, k \in Keys :
        /\ m = f.src /\ m \in Nodes /\ f.nonce[1] = m /\ x = eng[s].nonce
        /\ k = DeriveLmk(m, s, x) /\ k = <<m, s, x>> /\ k \in Entries
  <2>1. /\ f.src \in Masters /\ f.nonce[1] = f.src /\ eng[s].nonce \in Nonces
        /\ DeriveLmk(f.src, s, eng[s].nonce) = <<f.src, s, eng[s].nonce>>
    BY <1>1, <1>2 DEF ConfirmOK, HandshakeOK, DeriveLmk
  <2>2. <<f.src, s, eng[s].nonce>> \in Keys
    BY <2>1 DEF Keys
  <2>3. Keys \subseteq Entries
    BY DEF Entries
  <2> QED BY <2>1, <2>2, <2>3, <1>2
<1>4. PICK e \in Engines, d \in Engines :
        /\ e = [eng[s] EXCEPT !.lmk = k]
        /\ d = [e EXCEPT !.st = "Secured", !.phase = "Idle"] /\ d.st = "Secured"
  <2>1. [eng[s] EXCEPT !.lmk = k] \in Engines
    BY <1>1 DEF Engines
  <2>2. ASSUME NEW e \in Engines
        PROVE  /\ [e EXCEPT !.st = "Secured", !.phase = "Idle"] \in Engines
               /\ [e EXCEPT !.st = "Secured", !.phase = "Idle"].st = "Secured"
    BY DEF Engines, LinkStates, PairPhases
  <2> QED BY <2>1, <2>2
<1>5. \A a \in AddPeer(RemovePeer(radio[s], m), m, k) :
        /\ a.radio \in RadioTables
        /\ \A t \in Send(a.radio, m) : t.key \in Entries
  <2>1. \A a \in AddPeer(RemovePeer(radio[s], m), m, k) : a.radio \in RadioTables
    BY <1>1, <1>3, RemovePeerResult, AddPeerResult
  <2> QED BY <2>1, <1>3, SendResult
<1>6. \/ /\ FailPairing(s, eng[s], radio[s], m)
         /\ rxq' = Pop(s) /\ rec' = rec /\ saved' = saved
      \/ /\ f.nonce = x
         /\ \E a \in AddPeer(RemovePeer(radio[s], m), m, k) :
              \/ FailPairing(s, e, a.radio, m) /\ rxq' = Pop(s) /\ rec' = rec /\ saved' = saved
              \/ \E w \in PersistOutcomes :
                   /\ rec' = SavePair(s, eng[s].peer, k, w)
                   /\ saved' = IF w.pair THEN saved \cup {k} ELSE saved
                   /\ \/ FailPairing(s, e, a.radio, m) /\ rxq' = Pop(s)
                      \/ /\ eng' = [eng EXCEPT ![s] = d]
                         /\ \E t \in Send(a.radio, m) :
                              rxq' = Transmit(Pop(s), t, s, m,
                                              Frame("PairConfirmAck", s, f.corr, NoNonce, t.key))
  <2> DEFINE h == Head(rxq[s])
             key == DeriveLmk(h.src, s, eng[s].nonce)
             eng0 == [eng[s] EXCEPT !.lmk = key]
             eng1 == [eng0 EXCEPT !.st = "Secured", !.phase = "Idle"]
  <2>1. \/ FailPairing(s, eng[s], radio[s], h.src) /\ rxq' = Pop(s) /\ rec' = rec /\ saved' = saved
        \/ /\ h.nonce = eng[s].nonce
           /\ \E a \in AddPeer(RemovePeer(radio[s], h.src), h.src, key) :
                \/ FailPairing(s, eng0, a.radio, h.src) /\ rxq' = Pop(s) /\ rec' = rec /\ saved' = saved
                \/ \E w \in PersistOutcomes :
                     /\ rec' = SavePair(s, eng[s].peer, key, w)
                     /\ saved' = IF w.pair THEN saved \cup {key} ELSE saved
                     /\ \/ FailPairing(s, eng0, a.radio, h.src) /\ rxq' = Pop(s)
                        \/ /\ eng' = [eng EXCEPT ![s] = eng1]
                           /\ \E t \in Send(a.radio, h.src) :
                                rxq' = Transmit(Pop(s), t, s, h.src,
                                                Frame("PairConfirmAck", s, h.corr, NoNonce, t.key))
    BY DEF OnPairConfirm
  <2>2. h = f /\ h.src = m /\ key = k
    BY <1>2, <1>3
  <2>3. eng0 = e
    BY <2>2, <1>4
  <2>4. eng1 = d
    BY <2>3, <1>4
  <2> HIDE DEF h, key, eng0, eng1
  <2> QED BY <2>1, <2>2, <2>3, <2>4, <1>3
<1>7. /\ eng'[s].st # "Pairing" /\ \A i \in Nodes \ {s} : eng'[i] = eng[i]
  <2>1. ASSUME NEW r \in RadioTables, NEW h \in Engines, FailPairing(s, h, r, m)
        PROVE  eng'[s].st # "Pairing" /\ \A i \in Nodes \ {s} : eng'[i] = eng[i]
    BY <2>1, <1>1, <1>3, FailPairingDevice
  <2>2. ASSUME eng' = [eng EXCEPT ![s] = d]
        PROVE  eng'[s].st # "Pairing" /\ \A i \in Nodes \ {s} : eng'[i] = eng[i]
    BY <2>2, <1>1, <1>4 DEF TypeOK
  <2> QED BY <2>1, <2>2, <1>1, <1>4, <1>5, <1>6
<1>8. Newer /\ Held(rxq'[s]) \subseteq Held(rxq[s])
  <2>1. Pop(s) \in [Nodes -> Seq(Frames)] /\ Fewer(Pop(s)) /\ Rises(Pop(s))
    BY <1>1, PopRises
  <2>2. Held(Pop(s)[s]) \subseteq Held(rxq[s])
    BY <2>1, <1>1 DEF Fewer
  <2>3. CASE rxq' = Pop(s)
    BY <2>1, <2>2, <2>3, FewerNewer
  <2>4. ASSUME NEW a \in AddPeer(RemovePeer(radio[s], m), m, k), NEW t \in Send(a.radio, m),
               rxq' = Transmit(Pop(s), t, s, m, Frame("PairConfirmAck", s, f.corr, NoNonce, t.key))
        PROVE  Newer /\ Held(rxq'[s]) \subseteq Held(rxq[s])
    <3>1. PICK g \in Frames : /\ g = Frame("PairConfirmAck", s, f.corr, NoNonce, t.key)
                              /\ g.type # "PairInit"
      <4>1. Frame("PairConfirmAck", s, f.corr, NoNonce, t.key) \in Frames
        BY <1>1, <1>2, <1>5, FrameResult
      <4> QED BY <4>1 DEF Frame
    <3>2. rxq' = Transmit(Pop(s), t, s, m, g)
      BY <3>1, <2>4
    <3>3. rxq'[s] = Pop(s)[s]
      BY <3>2, <2>1, <1>1, <1>3 DEF Transmit
    <3> QED BY <3>1, <3>2, <3>3, <2>1, <2>2, SentNewer
  <2> QED BY <2>3, <2>4, <1>6
<1>9. \A i \in Masters : attempts'[i] >= attempts[i]
  BY <1>1, SameCount
<1>10. CASE rec' = rec /\ saved' = saved
  <2>1. Ages'
    BY <1>1, <1>7, <1>8, <1>9, <1>10, DeviceAges DEF SameNonce
  <2> QED BY <2>1, <1>10, RecordsSame DEF Refines
<1>11. ASSUME f.nonce = x, NEW w \in PersistOutcomes, w.pair,
              rec' = SavePair(s, eng[s].peer, k, w), saved' = saved \cup {k}
       PROVE  Ages' /\ Refines
  <2>1. AgeOK(s, m) /\ eng[s].nonce[1] = m
    BY <1>2, <1>3, <1>11 DEF AInv
  <2>2. /\ eng[s].peer = m /\ x[2] <= attempts[m]
        /\ \A j \in saved : j[1] = m /\ j[2] = s => j[3][2] < x[2]
        /\ \A g \in Held(rxq[s]) : IsInit(g, m) => x[2] < g.nonce[2]
    BY <2>1, <1>1, <1>3 DEF AgeOK
  <2>3. k[1] = m /\ k[2] = s /\ k[3] = x
    BY <1>3
  <2>4. rec' = [rec EXCEPT ![s][m] = k]
    BY <2>2, <1>11 DEF SavePair
  <2>5. Contract!Next
    <3>1. Newest(k, m, s)
      BY <2>2, <2>3 DEF Newest
    <3>2. TypeOK /\ m \in Masters /\ k \in Keys /\ k[1] = m /\ k[2] = s
      BY <1>1, <1>3
    <3> QED BY <3>1, <3>2, <2>4, <1>11, SlaveSaves
  <2>6. AgeOK(s, m)'
    BY <2>1, <2>2, <2>3, <1>1, <1>7, <1>8, <1>11 DEF AgeOK, Newer
  <2>7. ASSUME NEW i \in Slaves, NEW j \in Masters, i # s \/ j # m PROVE AgeOK(i, j)'
    <3>1. SameNonce(i)
      BY <1>7 DEF SameNonce, Nodes
    <3>2. \A y \in saved' : y[1] = j /\ y[2] = i => y \in saved
      BY <2>3, <2>7, <1>11
    <3> QED BY <3>1, <3>2, <1>8, <1>9, AgeStep
  <2> QED BY <2>5, <2>6, <2>7 DEF Ages, Refines
<1>12. ASSUME NEW w \in PersistOutcomes, rec' = SavePair(s, eng[s].peer, k, w), ~w.pair
       PROVE  rec' = rec
  BY <1>12, <1>1 DEF SavePair, TypeOK, HandshakeOK
<1> QED BY <1>6, <1>10, <1>11, <1>12

(* The key a master saves is the one its slave saved, and newer than its    *)
(* own record.                                                              *)
LEMMA OnPairConfirmAckAges ==
  ASSUME AInv, TypeOK', NEW m \in Masters, OnPairConfirmAck(m)
  PROVE  Ages' /\ Refines
<1>1. /\ m \in Nodes /\ m \notin Slaves /\ rxq[m] # <<>> /\ rxq' = Pop(m) /\ TypeOK
      /\ attempts' = attempts /\ saved' = saved /\ Head(rxq[m]).type = "PairConfirmAck"
      /\ Waits(m, "MasterWaitConfirmAck") /\ eng[m].st = "Pairing" /\ HandshakeOK(eng[m])
      /\ MasterOK(m)
  BY Roles DEF OnPairConfirmAck, AwaitsConfirmAck, Waits, HeadIs, Nodes, AInv, CInv, TypeOK
<1>2. \A i \in Nodes \ {m} : eng'[i] = eng[i]
  BY <1>1 DEF OnPairConfirmAck, FailPairing, TypeOK
<1>3. Ages'
  BY <1>1, <1>2, PoppedAges
<1>4. PICK p \in Slaves, x \in Nonces, k \in Keys :
        /\ p = eng[m].peer /\ x = eng[m].nonce /\ x[2] = attempts[m]
        /\ k = eng[m].lmk /\ k[1] = m /\ k[2] = p /\ k[3] = x
  <2>1. /\ eng[m].peer \in Slaves /\ eng[m].nonce \in Nonces /\ eng[m].lmk \in Keys
        /\ eng[m].nonce = <<m, attempts[m]>> /\ eng[m].lmk = <<m, eng[m].peer, eng[m].nonce>>
    BY <1>1 DEF MasterOK, HandshakeOK, Waits
  <2>2. eng[m].nonce[2] = attempts[m]
    BY <2>1
  <2>3. eng[m].lmk[1] = m /\ eng[m].lmk[2] = eng[m].peer /\ eng[m].lmk[3] = eng[m].nonce
    BY <2>1
  <2> QED BY <2>1, <2>2, <2>3
<1>5. k \in saved
  <2>1. ConfirmAckOK(m, Head(rxq[m]))
    BY <1>1, PopQueues DEF AInv, FrameOK
  <2> QED BY <2>1, <1>1, <1>4 DEF ConfirmAckOK
<1>6. rec[m][p] # None => rec[m][p][3][2] < k[3][2]
  BY <1>1, <1>4 DEF MasterOK, Nodes
<1>7. rec' = rec \/ rec' = [rec EXCEPT ![m][p] = k]
  <2>1. PICK w \in PersistOutcomes : rec' = SavePair(m, p, k, w)
    BY <1>4 DEF OnPairConfirmAck
  <2>2. CASE w.pair
    BY <2>1, <2>2 DEF SavePair
  <2>3. CASE ~w.pair
    BY <2>1, <2>3, <1>1 DEF SavePair, TypeOK
  <2> QED BY <2>2, <2>3
<1>8. rec' = [rec EXCEPT ![m][p] = k] => Contract!Next
  BY <1>1, <1>4, <1>5, <1>6, MasterSaves
<1> QED BY <1>1, <1>3, <1>7, <1>8, RecordsSame DEF Refines

(* Before anything happened nothing is saved and nothing is queued.         *)
LEMMA InitAges == Init => AInv /\ Contract!Init
<1> SUFFICES ASSUME Init PROVE AInv /\ Contract!Init
  OBVIOUS
<1>1. \A s \in Slaves : rxq[s] = <<>> /\ Held(rxq[s]) = {} /\ eng[s].st = "Unpaired" /\ saved = {}
  BY DEF Init, NewEngine, Held, Nodes
<1>2. ASSUME NEW s \in Slaves, NEW m \in Masters PROVE AgeOK(s, m)
  BY <1>1 DEF AgeOK, Rising
<1>3. Contract!Init
  BY DEF Contract!Init, Init, Nodes
<1> QED BY <1>2, <1>3, InitOrder DEF AInv

(* Every step keeps the ages in order and is a step of the contract or a    *)
(* stutter.                                                                 *)
LEMMA NextAges == AInv /\ [Next]_vars /\ [BusyFromPeer]_vars => AInv' /\ Refines
<1> SUFFICES ASSUME AInv, [Next]_vars, [BusyFromPeer]_vars PROVE Ages' /\ Refines
  BY NextOrder DEF AInv, Ages
<1> USE DEF AInv
<1>1. TypeOK /\ TypeOK' /\ CInv
  BY NextType DEF CInv
<1>2. CASE UNCHANGED vars
  BY <1>2, RecordsSame DEF vars, Ages, AgeOK, Refines
<1>3. ASSUME NEW m \in Masters, NEW s \in Slaves, NEW c \in CorrIds, PairRequest(m, s, c)
      PROVE  Ages' /\ Refines
  BY <1>1, <1>3, PairRequestAges
<1>4. ASSUME NEW m \in Masters, NEW s \in Slaves, NEW c \in CorrIds, UnpairRequest(m, s, c)
      PROVE  Ages' /\ Refines
  BY <1>1, <1>4, UnpairRequestAges
<1>5. ASSUME NEW s \in Slaves, TickDiscovery(s) PROVE Ages' /\ Refines
  BY <1>1, <1>5, TickDiscoveryAges
<1>6. ASSUME NEW n \in Nodes, HandleFrame(n) PROVE Ages' /\ Refines
  BY <1>1, <1>6, OnDiscoveryAges, OnPairInitAges, OnPairInitAckAges, OnPairConfirmAges,
     OnPairConfirmAckAges, OnPairBusyAges, OnUnpairRequestAges, OnUnpairAckAges, IgnoreFrameAges
     DEF HandleFrame
<1>7. ASSUME NEW n \in Nodes, TickTimer(n) PROVE Ages' /\ Refines
  BY <1>1, <1>7, TickSecureGuardAges, TickPairTimeoutAges, TickUnpairTimeoutAges,
     TickDeferredCleanupAges DEF TickTimer
<1>8. ASSUME NEW n \in Nodes, Reboot(n) \/ HardReinit(n) PROVE Ages' /\ Refines
  BY <1>1, <1>8, RebootAges, HardReinitAges
<1>9. ASSUME NEW n \in Nodes, NEW p \in Nodes, RemovePeerRequest(n, p) PROVE Ages' /\ Refines
  BY <1>1, <1>9, RemovePeerRequestAges
<1> QED BY <1>2, <1>3, <1>4, <1>5, <1>6, <1>7, <1>8, <1>9 DEF Next

(* The flash of the two sides behaves as PairContract allows: a slave       *)
(* commits each key once and in the order of the attempts, a master commits *)
(* a key its slave committed and never an older one than it holds, and      *)
(* apart from that records are only forgotten - whatever frames are lost,   *)
(* whoever restarts or re-initialises its radio, and however often pairing  *)
(* is retried, as long as PairBusy comes from the peer being paired.        *)
THEOREM PairingHonoursContract == Spec /\ [][BusyFromPeer]_vars => HonoursContract
  BY InitAges, NextAges, PTL DEF Spec, HonoursContract, Contract!Spec, Refines

-----------------------------------------------------------------------------
(* The consequence of the contract that a reader of it relies on, from the  *)
(* contract alone: whatever records behave as it allows.                    *)

PairKeys(m, s)    == {k \in Keys : k[1] = m /\ k[2] = s}
Latest(k, m, s)   == \A j \in saved \cap PairKeys(m, s) : j[3][2] <= k[3][2]

(* A slave's record is the newest key committed for the link, a master's is *)
(* one of the committed keys.                                               *)
RecordsAhead ==
  /\ MRec \in [Masters -> [Slaves -> Keys \cup {None}]]
  /\ SRec \in [Slaves -> [Masters -> Keys \cup {None}]]
  /\ \A m \in Masters, s \in Slaves :
       /\ MRec[m][s] # None => MRec[m][s] \in saved \cap PairKeys(m, s)
       /\ SRec[s][m] # None => Latest(SRec[s][m], m, s)

LEMMA SlaveCommitKeeps ==
  ASSUME RecordsAhead, NEW m \in Masters, NEW s \in Slaves, Contract!SlaveCommit(s, m)
  PROVE  RecordsAhead'
<1>1. PICK k \in PairKeys(m, s) :
        /\ \A j \in saved \cap PairKeys(m, s) : j[3][2] < k[3][2]
        /\ SRec' = [SRec EXCEPT ![s][m] = k]
        /\ saved' = saved \cup {k}
        /\ MRec' = MRec
  BY DEF Contract!SlaveCommit, MRec, SRec, PairKeys
<1>2. k \in Keys /\ k[3][2] \in Nat /\ \A j \in PairKeys(m, s) : j[3][2] \in Nat
  BY <1>1 DEF PairKeys, Keys, Nonces
<1>3. /\ MRec' \in [Masters -> [Slaves -> Keys \cup {None}]]
      /\ SRec' \in [Slaves -> [Masters -> Keys \cup {None}]]
  BY <1>1, <1>2 DEF RecordsAhead
<1>4. ASSUME NEW a \in Masters, NEW b \in Slaves
      PROVE  /\ MRec'[a][b] # None => MRec'[a][b] \in saved' \cap PairKeys(a, b)
             /\ SRec'[b][a] # None => Latest(SRec[b][a], a, b)'
  <2>1. MRec'[a][b] # None => MRec'[a][b] \in saved' \cap PairKeys(a, b)
    BY <1>1 DEF RecordsAhead
  <2>2. CASE a = m /\ b = s
    <3>1. SRec'[b][a] = k
      BY <2>2, <1>1 DEF RecordsAhead
    <3>2. \A j \in saved' \cap PairKeys(m, s) : j[3][2] <= k[3][2]
      BY <1>1, <1>2
    <3> QED BY <2>1, <2>2, <3>1, <3>2 DEF Latest, PairKeys
  <2>3. CASE ~(a = m /\ b = s)
    <3>1. saved' \cap PairKeys(a, b) = saved \cap PairKeys(a, b)
      BY <2>3, <1>1 DEF PairKeys
    <3>2. SRec'[b][a] = SRec[b][a]
      BY <2>3, <1>1 DEF RecordsAhead
    <3> QED BY <2>1, <3>1, <3>2 DEF RecordsAhead, Latest, PairKeys
  <2> QED BY <2>2, <2>3
<1> QED BY <1>3, <1>4 DEF RecordsAhead, PairKeys

LEMMA MasterCommitKeeps ==
  ASSUME RecordsAhead, NEW m \in Masters, NEW s \in Slaves, Contract!MasterCommit(m, s)
  PROVE  RecordsAhead'
<1>1. PICK k \in saved \cap PairKeys(m, s) :
        MRec' = [MRec EXCEPT ![m][s] = k] /\ SRec' = SRec /\ saved' = saved
  BY DEF Contract!MasterCommit, MRec, SRec, PairKeys
<1>2. k \in Keys
  BY <1>1 DEF PairKeys
<1> QED BY <1>1, <1>2 DEF RecordsAhead, Latest, PairKeys

LEMMA ForgetKeeps ==
  ASSUME RecordsAhead, \/ \E m \in Masters : Contract!MasterForgets(m)
                    \/ \E s \in Slaves : Contract!SlaveForgets(s)
  PROVE  RecordsAhead'
<1>1. ASSUME NEW m \in Masters, Contract!MasterForgets(m) PROVE RecordsAhead'
  <2>1. PICK F : MRec' = [MRec EXCEPT ![m] = [s \in Slaves |-> IF s \in F THEN None ELSE MRec[m][s]]]
    BY <1>1 DEF Contract!MasterForgets, MRec, SRec
  <2>2. SRec' = SRec /\ saved' = saved
    BY <1>1 DEF Contract!MasterForgets, MRec, SRec
  <2> QED BY <2>1, <2>2 DEF RecordsAhead, Latest, PairKeys
<1>2. ASSUME NEW s \in Slaves, Contract!SlaveForgets(s) PROVE RecordsAhead'
  <2>1. PICK F : SRec' = [SRec EXCEPT ![s] = [m \in Masters |-> IF m \in F THEN None ELSE SRec[s][m]]]
    BY <1>2 DEF Contract!SlaveForgets, MRec, SRec
  <2>2. MRec' = MRec /\ saved' = saved
    BY <1>2 DEF Contract!SlaveForgets, MRec, SRec
  <2> QED BY <2>1, <2>2 DEF RecordsAhead, Latest, PairKeys
<1> QED BY <1>1, <1>2

(* After any number of pairings, losses and removals the master's record is *)
(* never newer than the slave's: the order persistPair is called in on the  *)
(* two sides makes a half-finished pairing one the slave already knows.     *)
THEOREM ContractKeepsSlaveAhead == Contract!Spec => []Contract!MasterNeverAhead
<1>1. Contract!Init => RecordsAhead
  <2> SUFFICES ASSUME Contract!Init PROVE RecordsAhead
    OBVIOUS
  <2>1. /\ MRec = [m \in Masters |-> [s \in Slaves |-> None]]
        /\ SRec = [s \in Slaves |-> [m \in Masters |-> None]]
    BY DEF Contract!Init, MRec, SRec
  <2> QED BY <2>1 DEF RecordsAhead
<1>2. RecordsAhead /\ [Contract!Next]_(Contract!cvars) => RecordsAhead'
  <2> SUFFICES ASSUME RecordsAhead, [Contract!Next]_(Contract!cvars) PROVE RecordsAhead'
    OBVIOUS
  <2>1. CASE UNCHANGED Contract!cvars
    <3>1. MRec' = MRec /\ SRec' = SRec /\ saved' = saved
      BY <2>1 DEF Contract!cvars, MRec, SRec
    <3> QED BY <3>1 DEF RecordsAhead, Latest, PairKeys
  <2>2. CASE Contract!Next
    BY <2>2, SlaveCommitKeeps, MasterCommitKeeps, ForgetKeeps DEF Contract!Next
  <2> QED BY <2>1, <2>2
<1>3. RecordsAhead => Contract!MasterNeverAhead
  <2> SUFFICES ASSUME RecordsAhead, NEW m \in Masters, NEW s \in Slaves,
                      MRec[m][s] # None, SRec[s][m] # None
               PROVE  MRec[m][s][3][2] <= SRec[s][m][3][2]
    BY DEF Contract!MasterNeverAhead, MRec, SRec
  <2> QED BY DEF RecordsAhead, Latest
<1> QED BY <1>1, <1>2, <1>3, PTL DEF Contract!Spec

(* So the engine as it is written never leaves a master with a newer key    *)
(* than its slave has, whatever is lost, restarted or retried: a master     *)
(* that missed the end of a pairing only has to pair again.                 *)
THEOREM SlaveNeverBehind == Spec /\ [][BusyFromPeer]_vars => []Contract!MasterNeverAhead
  BY PairingHonoursContract, ContractKeepsSlaveAhead, PTL DEF HonoursContract
=============================================================================
