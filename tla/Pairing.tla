------------------------------ MODULE Pairing ------------------------------
(***************************************************************************)
(* The pairing engine of espnow_link (PairingEngine, src/src/pairing) with  *)
(* the parts of EspNowManager that feed it: the control receive queue, the  *)
(* management guards on pair, unpair and remove requests, and the restore   *)
(* of persisted links after a restart.                                      *)
(*                                                                         *)
(* Masters and slaves exchange frames over a lossy one-hop radio.  A frame  *)
(* is encrypted with whatever the sender's hardware peer table holds for    *)
(* the destination, and reaches the receiver's queue only when it is        *)
(* unencrypted or the receiver's own table holds the same key.  Every send, *)
(* every peer-table insertion and every flash write may fail.               *)
(***************************************************************************)
EXTENDS Naturals, Sequences, FiniteSets

CONSTANTS Masters, Slaves,    \* devices by role
          CorrIds,            \* correlation ids (req_id, beacon counter), positive
          MaxAttempts,        \* bound: nonces one master may draw
          MaxBeacons,         \* bound: discovery beacons between two restarts
          QMax,               \* kQueueMax of control_rx_queue_ (32 in the code)
          MaxPairedSlaves,    \* records a master may hold before it refuses more
          Reboots,            \* whether devices may restart (power loss, watchdog)
          Reinits,            \* whether hardReinitRadio is called under a live engine
          EraseFaults,        \* whether erasing a record may fail (nobody is told)
          None, Plain, ZeroLmk, NoNode, NoNonce

ASSUME Roles == Masters \cap Slaves = {} /\ NoNode \notin Masters \cup Slaves
ASSUME Bounds == /\ MaxAttempts \in Nat /\ MaxBeacons \in Nat
                 /\ QMax \in Nat \ {0} /\ MaxPairedSlaves \in Nat
                 /\ CorrIds \subseteq Nat \ {0} /\ 1 .. MaxBeacons \subseteq CorrIds
                 /\ {Reboots, Reinits, EraseFaults} \subseteq BOOLEAN

Nodes  == Masters \cup Slaves

(* esp_random(): the k-th draw of a master; draws never collide.            *)
Nonces == Masters \X (1 .. MaxAttempts)

(* deriveLmkFromSeed(seed, master, slave, nonce): a key is determined by    *)
(* the two addresses and the nonce (seed and nonce are drawn together).     *)
Keys   == Masters \X Slaves \X Nonces

ASSUME Sentinels == /\ None \notin Keys /\ Plain \notin Keys /\ ZeroLmk \notin Keys
                    /\ None # Plain /\ None # ZeroLmk /\ Plain # ZeroLmk
                    /\ NoNonce \notin Nonces

VARIABLES
  eng,       \* eng[n]: the fields of n's PairingEngine
  radio,     \* radio[n][p]: n's hardware entry for p and the transport's cached copy
  rec,       \* rec[n][p]: the key of n's persisted pair record for p
  rxq,       \* rxq[n]: control_rx_queue_ of n
  attempts,  \* attempts[m]: nonces drawn by master m so far
  beacons,   \* beacons[s]: discovery_counter_ - 1 of slave s
  saved      \* history: keys a slave has ever written to flash

vars == <<eng, radio, rec, rxq, attempts, beacons, saved>>

-----------------------------------------------------------------------------
(* Data.                                                                    *)

LinkStates == {"Unpaired", "Pairing", "Secured"}
PairPhases == {"Idle", "MasterWaitInitAck", "MasterSecureGuard",
               "MasterWaitConfirmAck", "SlaveWaitConfirm"}

Engines == [st : LinkStates, phase : PairPhases, peer : Nodes \cup {NoNode},
            corr : Nat, nonce : Nonces \cup {NoNonce}, lmk : Keys \cup {ZeroLmk},
            unpairPending : BOOLEAN, unpairCorr : Nat,
            deferredPeer : Nodes \cup {NoNode}]   \* NoNode: no deferred cleanup

Entries == Keys \cup {None, Plain, ZeroLmk}

RadioTables == [Nodes -> [hw : Entries, cache : Entries]]

FrameTypes == {"Discovery", "PairInit", "PairInitAck", "PairConfirm",
               "PairConfirmAck", "PairBusy", "UnpairRequest", "UnpairAck"}

(* Only a master initiates and confirms, with a nonce it drew; only a slave *)
(* acknowledges the initiation and sends beacons.                           *)
Frames == {f \in [type : FrameTypes, src : Nodes, corr : CorrIds,
                   nonce : Nonces \cup {NoNonce}, key : Entries] :
             /\ f.type \in {"PairInit", "PairConfirm"} => f.src \in Masters /\ f.nonce \in Nonces
             /\ f.type = "PairInitAck" => f.src \in Slaves /\ f.nonce \in Nonces
             /\ f.type = "Discovery" => f.src \in Slaves}

Frame(ty, n, c, x, k) == [type |-> ty, src |-> n, corr |-> c, nonce |-> x, key |-> k]

(* A PairingEngine as constructed: nothing paired, nothing pending.         *)
NewEngine == [st |-> "Unpaired", phase |-> "Idle", peer |-> NoNode, corr |-> 0,
              nonce |-> NoNonce, lmk |-> ZeroLmk, unpairPending |-> FALSE,
              unpairCorr |-> 0, deferredPeer |-> NoNode]

NoPeers == [p \in Nodes |-> [hw |-> None, cache |-> None]]

(* Fault: the slave's address hashed before the master's.                   *)
DeriveLmkSwapped(m, s, x) == <<s, m, x>>

DeriveLmk(m, s, x) == <<m, s, x>>

-----------------------------------------------------------------------------
(* Transport: the hardware peer table and the radio.                        *)

(* addPeer: an identical entry is kept; otherwise the old one is deleted    *)
(* first, so a refused insertion leaves no hardware entry and a stale cache.*)
AddPeer(r, p, e) ==
  {[ok |-> TRUE, radio |-> [r EXCEPT ![p] = [hw |-> e, cache |-> e]]]} \cup
  (IF r[p].hw = e THEN {}
   ELSE {[ok |-> FALSE, radio |-> [r EXCEPT ![p] = [hw |-> None, cache |-> @.cache]]]})

RemovePeer(r, p) == [r EXCEPT ![p] = [hw |-> None, cache |-> None]]

(* resolvePeerConfig: what send() re-adds for a destination that is missing *)
(* in hardware; without a cached entry, encryption with an all-zero LMK.    *)
Resolved(r, p) == IF r[p].cache = None THEN ZeroLmk ELSE r[p].cache

(* send(): re-add a missing peer, then hand the frame to the radio, which   *)
(* may refuse it (ok = FALSE) or lose it in the air (heard = FALSE).        *)
Send(r, p) ==
  LET added == IF r[p].hw # None THEN {[ok |-> TRUE, radio |-> r]}
               ELSE AddPeer(r, p, Resolved(r, p))
  IN  {[ok |-> a.ok /\ o # "refused", heard |-> a.ok /\ o = "heard",
        radio |-> a.radio, key |-> a.radio[p].hw]
         : a \in added, o \in {"refused", "lost", "heard"}}

(* enqueue_control_rx: a full queue drops its oldest frame.                 *)
Enqueue(q, f) == Append(IF Len(q) >= QMax THEN Tail(q) ELSE q, f)

(* The receiver's hardware passes a frame up when it is in the clear or     *)
(* encrypted with the key of the receiver's own entry for the sender.       *)
Decrypts(p, n, k) == k = Plain \/ radio[p][n].hw = k

(* The queues after n sends f to p with outcome t.                          *)
Transmit(q, t, n, p, f) ==
  IF t.heard /\ Decrypts(p, n, f.key) THEN [q EXCEPT ![p] = Enqueue(@, f)] ELSE q

Pop(n) == [rxq EXCEPT ![n] = Tail(@)]

-----------------------------------------------------------------------------
(* Engine helpers.                                                          *)

(* resetPairing: peer_mac_ and current_lmk_ keep their values.              *)
ResetPairing(e) ==
  [e EXCEPT !.st = "Unpaired", !.phase = "Idle", !.corr = 0, !.nonce = NoNonce,
            !.unpairPending = FALSE, !.unpairCorr = 0, !.deferredPeer = NoNode]

(* Fault: failPairing resets the engine but leaves the peer in hardware.    *)
FailPairingKeepsPeer(n, e, r, p) ==
  /\ eng'   = [eng EXCEPT ![n] = ResetPairing(e)]
  /\ radio' = [radio EXCEPT ![n] = r]

(* failPairing(p): evict p and reset.                                       *)
FailPairing(n, e, r, p) ==
  /\ eng'   = [eng EXCEPT ![n] = ResetPairing(e)]
  /\ radio' = [radio EXCEPT ![n] = RemovePeer(r, p)]

(* persistPair: savePair and saveChannel are both attempted; a record that  *)
(* was written stays when the channel write fails.                          *)
PersistOutcomes == [pair : BOOLEAN, channel : BOOLEAN]
(* Fault: the result of persistPair is ignored.                             *)
PersistedUnchecked(w) == w.pair \/ ~w.pair

Persisted(w)    == w.pair /\ w.channel
(* Fault: savePair keeps the record of a peer that has one.                 *)
SavePairKeepsOld(n, p, k, w) ==
  [rec EXCEPT ![n][p] = IF w.pair /\ @ = None THEN k ELSE @]

SavePair(n, p, k, w) == [rec EXCEPT ![n][p] = IF w.pair THEN k ELSE @]

(* erasePair and eraseChannel for the peers P; their results are ignored.   *)
ErasePairs(n, P) ==
  {[rec EXCEPT ![n] = [p \in Nodes |-> IF p \in D THEN None ELSE @[p]]]
     : D \in IF EraseFaults THEN SUBSET P ELSE {P}}

PersistedPeers(n) == {p \in Nodes : rec[n][p] # None}

-----------------------------------------------------------------------------
(* Pairing, in the order of the handshake.                                  *)

(* PairingEngine::requestPair on master m for slave s; q is the queues the  *)
(* caller leaves (the discovery handler has already popped a frame).        *)
RequestPair(m, s, c, q) ==
  /\ eng[m].st # "Pairing" /\ ~eng[m].unpairPending
  /\ attempts[m] < MaxAttempts
  /\ LET x == <<m, attempts[m] + 1>>
         e == [eng[m] EXCEPT !.st = "Pairing", !.phase = "MasterWaitInitAck",
                             !.peer = s, !.corr = c, !.nonce = x]
     IN  /\ attempts' = [attempts EXCEPT ![m] = @ + 1]
         /\ \E a \in AddPeer(radio[m], s, Plain) :
              \/ ~a.ok /\ FailPairing(m, e, a.radio, s) /\ rxq' = q
              \/ /\ a.ok
                 /\ \E t \in Send(a.radio, s) :
                      \/ ~t.ok /\ FailPairing(m, e, t.radio, s) /\ rxq' = q
                      \/ /\ t.ok
                         /\ eng' = [eng EXCEPT ![m] = e]
                         /\ radio' = [radio EXCEPT ![m] = t.radio]
                         /\ rxq' = Transmit(q, t, m, s, Frame("PairInit", m, c, x, t.key))
  /\ UNCHANGED <<rec, beacons, saved>>

(* Management PairRequest: answered at once for a peer that is already      *)
(* persisted, refused at capacity, otherwise requestPair.                   *)
PairRequest(m, s, c) ==
  /\ rec[m][s] = None
  /\ Cardinality(PersistedPeers(m)) < MaxPairedSlaves
  /\ RequestPair(m, s, c, rxq)

(* tick(): an unpaired slave broadcasts a beacon; H are the masters that    *)
(* hear it with their discovery window open.                                *)
TickDiscovery(s) ==
  /\ eng[s].st = "Unpaired" /\ beacons[s] < MaxBeacons
  /\ beacons' = [beacons EXCEPT ![s] = @ + 1]
  /\ \E H \in SUBSET Masters :
       rxq' = [n \in Nodes |->
                 IF n \in H
                 THEN Enqueue(rxq[n], Frame("Discovery", s, beacons[s] + 1, NoNonce, Plain))
                 ELSE rxq[n]]
  /\ UNCHANGED <<eng, radio, rec, attempts, saved>>

HeadIs(n, ty) == rxq[n] # <<>> /\ Head(rxq[n]).type = ty

(* onRxDiscovery, then onDiscovery with auto_pair_on_discovery: an unpaired *)
(* master below capacity starts pairing, persisted peer or not.             *)
DiscoveryStarts(m) == /\ Cardinality(PersistedPeers(m)) < MaxPairedSlaves
                      /\ eng[m].st = "Unpaired" /\ ~eng[m].unpairPending
                      /\ attempts[m] < MaxAttempts

OnDiscovery(m) ==
  /\ HeadIs(m, "Discovery") /\ DiscoveryStarts(m)
  /\ LET f == Head(rxq[m]) IN RequestPair(m, f.src, f.corr, Pop(m))

(* onPairInit while another handshake is in progress: the sender gets a     *)
(* plain entry - even when it is the current peer - and PairBusy.           *)
BusyReject(s, f) ==
  /\ \E a \in AddPeer(radio[s], f.src, Plain) : \E t \in Send(a.radio, f.src) :
       /\ radio' = [radio EXCEPT ![s] = t.radio]
       /\ rxq' = Transmit(Pop(s), t, s, f.src, Frame("PairBusy", s, f.corr, NoNonce, t.key))
  /\ UNCHANGED eng

(* onPairInit otherwise: take over the attempt, acknowledge in the clear,   *)
(* then install the derived key.                                            *)
Prepare(s, f) ==
  LET e == [eng[s] EXCEPT !.st = "Pairing", !.phase = "SlaveWaitConfirm",
                          !.peer = f.src, !.corr = f.corr, !.nonce = f.nonce]
      k == DeriveLmk(f.src, s, f.nonce)
      f2(t) == Frame("PairInitAck", s, f.corr, f.nonce, t.key)
  IN \E a \in AddPeer(radio[s], f.src, Plain) :
       \/ ~a.ok /\ FailPairing(s, e, a.radio, f.src) /\ rxq' = Pop(s)
       \/ /\ a.ok
          /\ \E t \in Send(a.radio, f.src) :
               \/ ~t.ok /\ FailPairing(s, e, t.radio, f.src) /\ rxq' = Pop(s)
               \/ /\ t.ok
                  /\ rxq' = Transmit(Pop(s), t, s, f.src, f2(t))
                  /\ \E b \in AddPeer(RemovePeer(t.radio, f.src), f.src, k) :
                       \/ ~b.ok /\ FailPairing(s, [e EXCEPT !.lmk = k], b.radio, f.src)
                       \/ /\ b.ok
                          /\ eng' = [eng EXCEPT ![s] = [e EXCEPT !.lmk = k]]
                          /\ radio' = [radio EXCEPT ![s] = b.radio]

OnPairInit(s) ==
  /\ HeadIs(s, "PairInit") /\ eng[s].st # "Secured"
  /\ LET f == Head(rxq[s])
         busy == eng[s].st = "Pairing" /\ (f.src # eng[s].peer \/ f.corr # eng[s].corr)
     IN (busy /\ BusyReject(s, f)) \/ (~busy /\ Prepare(s, f))
  /\ UNCHANGED <<rec, attempts, beacons, saved>>

(* onPairInitAck: the correlation id and the nonce are compared, the sender *)
(* is not; a wrong nonce evicts the sender and ends the attempt.            *)
AwaitsInitAck(m, f) == /\ eng[m].st = "Pairing" /\ eng[m].phase = "MasterWaitInitAck"
                       /\ f.corr = eng[m].corr

OnPairInitAck(m) ==
  /\ HeadIs(m, "PairInitAck") /\ AwaitsInitAck(m, Head(rxq[m]))
  /\ LET f == Head(rxq[m])
         k == DeriveLmk(m, f.src, eng[m].nonce)
         e == [eng[m] EXCEPT !.lmk = k]
     IN \/ f.nonce # eng[m].nonce /\ FailPairing(m, eng[m], radio[m], f.src)
        \/ /\ f.nonce = eng[m].nonce
           /\ \E a \in AddPeer(RemovePeer(radio[m], f.src), f.src, k) :
                \/ ~a.ok /\ FailPairing(m, e, a.radio, f.src)
                \/ /\ a.ok
                   /\ eng' = [eng EXCEPT ![m] = [e EXCEPT !.phase = "MasterSecureGuard"]]
                   /\ radio' = [radio EXCEPT ![m] = a.radio]
  /\ rxq' = Pop(m)
  /\ UNCHANGED <<rec, attempts, beacons, saved>>

(* tick(): the 150 ms guard after installing the key is over; confirm.      *)
TickSecureGuard(m) ==
  /\ eng[m].st = "Pairing" /\ eng[m].phase = "MasterSecureGuard"
  /\ \E t \in Send(radio[m], eng[m].peer) :
       \/ ~t.ok /\ FailPairing(m, eng[m], t.radio, eng[m].peer) /\ UNCHANGED rxq
       \/ /\ t.ok
          /\ eng' = [eng EXCEPT ![m].phase = "MasterWaitConfirmAck"]
          /\ radio' = [radio EXCEPT ![m] = t.radio]
          /\ rxq' = Transmit(rxq, t, m, eng[m].peer,
                             Frame("PairConfirm", m, eng[m].corr, eng[m].nonce, t.key))
  /\ UNCHANGED <<rec, attempts, beacons, saved>>

(* onPairConfirm: re-install the key, persist, and only then acknowledge;   *)
(* a failed ConfirmAck leaves the slave paired.                             *)
AwaitsConfirm(s, f) == /\ eng[s].st = "Pairing" /\ eng[s].phase = "SlaveWaitConfirm"
                       /\ f.corr = eng[s].corr

OnPairConfirm(s) ==
  /\ HeadIs(s, "PairConfirm") /\ AwaitsConfirm(s, Head(rxq[s]))
  /\ LET f == Head(rxq[s])
         k == DeriveLmk(f.src, s, eng[s].nonce)
         e == [eng[s] EXCEPT !.lmk = k]
     IN \/ /\ f.nonce # eng[s].nonce
           /\ FailPairing(s, eng[s], radio[s], f.src)
           /\ rxq' = Pop(s) /\ UNCHANGED <<rec, saved>>
        \/ /\ f.nonce = eng[s].nonce
           /\ \E a \in AddPeer(RemovePeer(radio[s], f.src), f.src, k) :
                \/ /\ ~a.ok
                   /\ FailPairing(s, e, a.radio, f.src)
                   /\ rxq' = Pop(s) /\ UNCHANGED <<rec, saved>>
                \/ /\ a.ok
                   /\ \E w \in PersistOutcomes :
                        /\ rec' = SavePair(s, eng[s].peer, k, w)
                        /\ saved' = IF w.pair THEN saved \cup {k} ELSE saved
                        /\ \/ /\ ~Persisted(w)
                              /\ FailPairing(s, e, a.radio, f.src) /\ rxq' = Pop(s)
                           \/ /\ Persisted(w)
                              /\ eng' = [eng EXCEPT ![s] = [e EXCEPT !.st = "Secured",
                                                                     !.phase = "Idle"]]
                              /\ \E t \in Send(a.radio, f.src) :
                                   /\ radio' = [radio EXCEPT ![s] = t.radio]
                                   /\ rxq' = Transmit(Pop(s), t, s, f.src,
                                       Frame("PairConfirmAck", s, f.corr, NoNonce, t.key))
  /\ UNCHANGED <<attempts, beacons>>

(* onPairConfirmAck: the frame carries no nonce and its sender is not       *)
(* compared with peer_mac_; the record is written for peer_mac_.            *)
(* Fault: the phase is not tested, a late acknowledgement is taken.         *)
AwaitsConfirmAckAnyPhase(m, f) == eng[m].st = "Pairing" /\ f.corr = eng[m].corr

AwaitsConfirmAck(m, f) == /\ eng[m].st = "Pairing" /\ eng[m].phase = "MasterWaitConfirmAck"
                          /\ f.corr = eng[m].corr

OnPairConfirmAck(m) ==
  /\ HeadIs(m, "PairConfirmAck") /\ AwaitsConfirmAck(m, Head(rxq[m]))
  /\ LET f == Head(rxq[m])
         e == [eng[m] EXCEPT !.st = "Secured", !.phase = "Idle", !.nonce = NoNonce]
     IN \E w \in PersistOutcomes :
          /\ rec' = SavePair(m, eng[m].peer, eng[m].lmk, w)
          /\ \/ ~Persisted(w) /\ FailPairing(m, e, radio[m], f.src)
             \/ Persisted(w) /\ eng' = [eng EXCEPT ![m] = e] /\ UNCHANGED radio
  /\ rxq' = Pop(m)
  /\ UNCHANGED <<attempts, beacons, saved>>

(* onPairBusy: evict the sender and give up.                                *)
AwaitsBusy(m, f) == eng[m].st = "Pairing" /\ f.corr = eng[m].corr

OnPairBusy(m) ==
  /\ HeadIs(m, "PairBusy") /\ AwaitsBusy(m, Head(rxq[m]))
  /\ FailPairing(m, eng[m], radio[m], Head(rxq[m]).src)
  /\ rxq' = Pop(m)
  /\ UNCHANGED <<rec, attempts, beacons, saved>>

(* tick(): the phase or the total pairing deadline has passed.              *)
(* Fault: no total deadline, so nothing ends the guard phase but the guard. *)
TickPairTimeoutPhaseOnly(n) ==
  /\ eng[n].st = "Pairing" /\ eng[n].phase # "MasterSecureGuard"
  /\ FailPairing(n, eng[n], radio[n], eng[n].peer)
  /\ UNCHANGED <<rec, rxq, attempts, beacons, saved>>

TickPairTimeout(n) ==
  /\ eng[n].st = "Pairing"
  /\ FailPairing(n, eng[n], radio[n], eng[n].peer)
  /\ UNCHANGED <<rec, rxq, attempts, beacons, saved>>

-----------------------------------------------------------------------------
(* Unpairing and removal.                                                   *)

(* Management UnpairRequest (the peer must be persisted), then              *)
(* requestUnpair: peer_mac_ moves to the peer even when the send fails.     *)
UnpairRequest(m, s, c) ==
  /\ rec[m][s] # None
  /\ eng[m].st = "Secured" /\ ~eng[m].unpairPending
  /\ \E t \in Send(radio[m], s) :
       /\ radio' = [radio EXCEPT ![m] = t.radio]
       /\ eng' = [eng EXCEPT ![m] = [@ EXCEPT !.peer = s, !.unpairPending = t.ok,
                                              !.unpairCorr = IF t.ok THEN c ELSE 0]]
       /\ rxq' = Transmit(rxq, t, m, s, Frame("UnpairRequest", m, c, NoNonce, t.key))
  /\ UNCHANGED <<rec, attempts, beacons, saved>>

(* onUnpairRequest: acknowledge first; the cleanup is deferred by the grace *)
(* time so that the acknowledgement can leave the radio.                    *)
(* Fault: the request is acknowledged but the cleanup is not scheduled.     *)
OnUnpairRequestAckOnly(n) ==
  /\ HeadIs(n, "UnpairRequest") /\ eng[n].st = "Secured"
  /\ LET f == Head(rxq[n])
     IN \E t \in Send(radio[n], f.src) :
          /\ radio' = [radio EXCEPT ![n] = t.radio]
          /\ rxq' = Transmit(Pop(n), t, n, f.src,
                             Frame("UnpairAck", n, f.corr, NoNonce, t.key))
  /\ UNCHANGED <<eng, rec, attempts, beacons, saved>>

OnUnpairRequest(n) ==
  /\ HeadIs(n, "UnpairRequest") /\ eng[n].st = "Secured"
  /\ LET f == Head(rxq[n])
     IN \E t \in Send(radio[n], f.src) :
          /\ radio' = [radio EXCEPT ![n] = t.radio]
          /\ eng' = IF t.ok THEN [eng EXCEPT ![n].deferredPeer = f.src] ELSE eng
          /\ rxq' = Transmit(Pop(n), t, n, f.src,
                             Frame("UnpairAck", n, f.corr, NoNonce, t.key))
  /\ UNCHANGED <<rec, attempts, beacons, saved>>

(* tick(): the grace time is over; forget the peer.                         *)
TickDeferredCleanup(n) ==
  /\ eng[n].deferredPeer # NoNode
  /\ rec' \in ErasePairs(n, {eng[n].deferredPeer})
  /\ radio' = [radio EXCEPT ![n] = RemovePeer(@, eng[n].deferredPeer)]
  /\ eng' = [eng EXCEPT ![n] = ResetPairing(@)]
  /\ UNCHANGED <<rxq, attempts, beacons, saved>>

(* onUnpairAck: only the correlation id is compared.                        *)
AwaitsUnpairAck(n, f) == eng[n].unpairPending /\ f.corr = eng[n].unpairCorr

OnUnpairAck(n) ==
  /\ HeadIs(n, "UnpairAck") /\ AwaitsUnpairAck(n, Head(rxq[n]))
  /\ LET p == Head(rxq[n]).src
     IN /\ rec' \in ErasePairs(n, {p})
        /\ radio' = [radio EXCEPT ![n] = RemovePeer(@, p)]
        /\ eng' = [eng EXCEPT ![n] = ResetPairing(@)]
  /\ rxq' = Pop(n)
  /\ UNCHANGED <<attempts, beacons, saved>>

(* tick(): no UnpairAck in time; the master stays paired.                   *)
(* Fault: the unpair timer is only advanced in the pairing branch of tick(). *)
TickUnpairTimeoutWhilePairing(n) ==
  /\ eng[n].unpairPending /\ eng[n].st = "Pairing"
  /\ eng' = [eng EXCEPT ![n].unpairPending = FALSE]
  /\ UNCHANGED <<radio, rec, rxq, attempts, beacons, saved>>

TickUnpairTimeout(n) ==
  /\ eng[n].unpairPending
  /\ eng' = [eng EXCEPT ![n].unpairPending = FALSE]
  /\ UNCHANGED <<radio, rec, rxq, attempts, beacons, saved>>

(* Management RemovePeerRequest, then removePeer(p, erase_persisted): a     *)
(* persisted target, or on a slave the active peer.                         *)
RemovePeerRequest(n, p) ==
  /\ \/ rec[n][p] # None
     \/ n \in Slaves /\ eng[n].st = "Secured" /\ p = eng[n].peer
  /\ radio' = [radio EXCEPT ![n] = RemovePeer(@, p)]
  /\ rec' \in ErasePairs(n, {p})
  /\ eng' = IF eng[n].st = "Secured" /\ p = eng[n].peer
            THEN [eng EXCEPT ![n] = ResetPairing(@)] ELSE eng
  /\ UNCHANGED <<rxq, attempts, beacons, saved>>

-----------------------------------------------------------------------------
(* Restart.                                                                 *)

(* restore() from a fresh transport: the records in K come back as secure   *)
(* entries, the others (trimmed, or refused by the hardware) are erased;    *)
(* the last one restored is the active peer.  Without one the engine keeps  *)
(* the state e it had.                                                      *)
Restore(n, e, K) ==
  /\ radio' = [radio EXCEPT ![n] =
                 [p \in Nodes |-> IF p \in K THEN [hw |-> rec[n][p], cache |-> rec[n][p]]
                                  ELSE [hw |-> None, cache |-> None]]]
  /\ rec' \in ErasePairs(n, PersistedPeers(n) \ K)
  /\ \/ K = {} /\ eng' = [eng EXCEPT ![n] = e]
     \/ \E p \in K :
          eng' = [eng EXCEPT ![n] = [e EXCEPT !.st = "Secured", !.phase = "Idle",
                                              !.peer = p, !.lmk = rec[n][p],
                                              !.corr = 0, !.nonce = NoNonce]]

(* Power loss or restart at any point, then begin() and restore().          *)
Reboot(n) ==
  /\ Reboots
  /\ \E K \in SUBSET PersistedPeers(n) : Restore(n, NewEngine, K)
  /\ rxq' = [rxq EXCEPT ![n] = <<>>]
  /\ beacons' = [p \in Slaves |-> IF p = n THEN 0 ELSE beacons[p]]
  /\ UNCHANGED <<attempts, saved>>

(* hardReinitRadio: end(), begin() and restore() under a live engine, whose *)
(* queue and pairing state are kept.                                        *)
HardReinit(n) ==
  /\ Reinits
  /\ \E K \in SUBSET PersistedPeers(n) : Restore(n, eng[n], K)
  /\ UNCHANGED <<rxq, attempts, beacons, saved>>

-----------------------------------------------------------------------------
(* A frame its handler returns from without effect.                         *)

Unwanted(n, f) ==
  CASE f.type = "Discovery"      -> ~(n \in Masters /\ DiscoveryStarts(n))
    [] f.type = "PairInit"       -> ~(n \in Slaves /\ eng[n].st # "Secured")
    [] f.type = "PairInitAck"    -> ~(n \in Masters /\ AwaitsInitAck(n, f))
    [] f.type = "PairConfirm"    -> ~(n \in Slaves /\ AwaitsConfirm(n, f))
    [] f.type = "PairConfirmAck" -> ~(n \in Masters /\ AwaitsConfirmAck(n, f))
    [] f.type = "PairBusy"       -> ~(n \in Masters /\ AwaitsBusy(n, f))
    [] f.type = "UnpairRequest"  -> eng[n].st # "Secured"
    [] f.type = "UnpairAck"      -> ~AwaitsUnpairAck(n, f)

IgnoreFrame(n) ==
  /\ rxq[n] # <<>> /\ Unwanted(n, Head(rxq[n]))
  /\ rxq' = Pop(n)
  /\ UNCHANGED <<eng, radio, rec, attempts, beacons, saved>>

Init ==
  /\ eng = [n \in Nodes |-> NewEngine]
  /\ radio = [n \in Nodes |-> NoPeers]
  /\ rec = [n \in Nodes |-> [p \in Nodes |-> None]]
  /\ rxq = [n \in Nodes |-> <<>>]
  /\ attempts = [m \in Masters |-> 0]
  /\ beacons = [s \in Slaves |-> 0]
  /\ saved = {}

(* tickControlRxQueue: the frame at the head of n's queue.                  *)
HandleFrame(n) ==
  \/ n \in Masters /\ (OnDiscovery(n) \/ OnPairInitAck(n) \/ OnPairConfirmAck(n)
                       \/ OnPairBusy(n))
  \/ n \in Slaves /\ (OnPairInit(n) \/ OnPairConfirm(n))
  \/ OnUnpairRequest(n) \/ OnUnpairAck(n) \/ IgnoreFrame(n)

(* PairingEngine::tick: a deadline of n has passed.                         *)
TickTimer(n) ==
  \/ n \in Masters /\ TickSecureGuard(n)
  \/ TickPairTimeout(n) \/ TickUnpairTimeout(n) \/ TickDeferredCleanup(n)

Next ==
  \/ \E m \in Masters, s \in Slaves, c \in CorrIds :
       PairRequest(m, s, c) \/ UnpairRequest(m, s, c)
  \/ \E s \in Slaves : TickDiscovery(s)
  \/ \E n \in Nodes : HandleFrame(n) \/ TickTimer(n) \/ Reboot(n) \/ HardReinit(n)
  \/ \E n \in Nodes, p \in Nodes : RemovePeerRequest(n, p)

Spec == Init /\ [][Next]_vars

-----------------------------------------------------------------------------
(* Correctness.                                                             *)

(* A handshake in progress has a peer, a correlation id and a nonce, and    *)
(* after the InitAck a derived key: no handler runs on reset fields.        *)
HandshakeOK(e) ==
  e.st = "Pairing" =>
    /\ e.peer \in Nodes /\ e.corr \in CorrIds /\ e.nonce \in Nonces
    /\ e.phase \in {"MasterSecureGuard", "MasterWaitConfirmAck"} => e.lmk \in Keys

(* Every field stays in the range its C++ type and the protocol give it.    *)
TypeOK ==
  /\ eng \in [Nodes -> Engines] /\ \A n \in Nodes : HandshakeOK(eng[n])
  /\ radio \in [Nodes -> RadioTables]
  /\ rec \in [Nodes -> [Nodes -> Keys \cup {None}]]
  /\ rxq \in [Nodes -> Seq(Frames)]
  /\ attempts \in [Masters -> 0 .. MaxAttempts]
  /\ beacons \in [Slaves -> 0 .. MaxBeacons]
  /\ saved \subseteq Keys

(* A device that reports itself paired has a flash record for the peer it   *)
(* reports: persistPair failures, removals and unpairings never leave a     *)
(* paired state that the next restart would forget.                         *)
SecuredIsPersisted ==
  \A n \in Nodes : eng[n].st = "Secured" => /\ eng[n].peer \in Nodes
                                            /\ rec[n][eng[n].peer] # None

(* On a paired slave the flash record, the key in the hardware peer table   *)
(* and the engine's current key for its master are one and the same,        *)
(* although onPairConfirm installs a key for the sender of the frame and    *)
(* persists it for peer_mac_ without comparing the two.                     *)
SlaveKeysAgree ==
  \A s \in Slaves : eng[s].st = "Secured" =>
    /\ rec[s][eng[s].peer] = eng[s].lmk
    /\ radio[s][eng[s].peer].hw = eng[s].lmk

(* A master commits a pairing only after the slave did: whatever key a      *)
(* master holds in flash was written by the slave first.  onPairConfirmAck  *)
(* checks neither sender nor nonce, so this rests on the order of the       *)
(* receive queue and on evicting every abandoned peer.                      *)
SlaveCommitsFirst ==
  \A m \in Masters, p \in Nodes : rec[m][p] # None => rec[m][p] \in saved

(* The flash records of the two sides behave as PairContract allows: slave  *)
(* first, master second, keys in the order they were drawn, whatever frames *)
(* are lost, delayed in a queue or overtaken by a new attempt.              *)
Contract == INSTANCE PairContract
  WITH mrec <- [m \in Masters |-> [s \in Slaves |-> rec[m][s]]],
       srec <- [s \in Slaves |-> [m \in Masters |-> rec[s][m]]],
       committed <- saved,
       KeyOf <- LAMBDA m, s : {k \in Keys : k[1] = m /\ k[2] = s},
       Age <- LAMBDA k : k[3][2]

HonoursContract == Contract!Spec

(* A master that erases a record on an UnpairAck erases it after the slave: *)
(* the slave has no record of it any more, or its deferred cleanup is still *)
(* pending.  onUnpairAck compares nothing but the correlation id.           *)
MasterForgetsLast ==
  [][\A m \in Masters, s \in Slaves :
       OnUnpairAck(m) /\ Head(rxq[m]).src = s =>
         rec[s][m] = None \/ eng[s].deferredPeer = m]_vars

-----------------------------------------------------------------------------
(* The loop task calls tick() for ever, and every pending deadline is       *)
(* finite: a timer that stays armed fires.                                  *)
Fairness == \A n \in Nodes : /\ WF_vars(TickPairTimeout(n))
                             /\ WF_vars(TickUnpairTimeout(n))
                             /\ WF_vars(TickDeferredCleanup(n))

FairSpec == Spec /\ Fairness

(* Exchanges end, whatever is lost and whoever interrupts: no device stays  *)
(* in the pairing state; an unpair request is answered or given up, so that *)
(* later requests are not refused for ever; and a slave that acknowledged   *)
(* one forgets that master, unless flash refuses the erase.                 *)
ExchangesEnd ==
  /\ \A n \in Nodes : (eng[n].st = "Pairing") ~> (eng[n].st # "Pairing")
  /\ \A m \in Masters : eng[m].unpairPending ~> ~eng[m].unpairPending
  /\ \A s \in Slaves, m \in Masters : (eng[s].deferredPeer = m) ~> (rec[s][m] = None)

=============================================================================
