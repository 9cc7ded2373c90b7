----------------------------- MODULE MCFrontend -----------------------------
(* Commands that answer at once, with and without a lane, that wait for a   *)
(* pairing exchange, and that wait for a pull from their peer.              *)
EXTENDS FrontendAdapter

Asking(kind, peer) == [kind |-> kind, peer |-> peer]
MCCalls == {Asking("Read", "any"), Asking("Live", "any"), Asking("Pair", "any"),
            Asking("Unpair", "p"), Asking("Set", "p")}
=============================================================================
