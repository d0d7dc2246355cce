---------------------------- MODULE MCLocalStore ----------------------------
(* Three chunks: ch1 and ch2 carry stamps of one slot, ch2 the later one.  *)
EXTENDS LocalStore, TLC

CONSTANTS ch1, ch2, ch3, B1, B2

MCChunk == {ch1, ch2, ch3}
MCBatch == {B1, B2}
MCBatchOf == ch1 :> B1 @@ ch2 :> B1 @@ ch3 :> B2
MCSlotOf == ch1 :> 1 @@ ch2 :> 1 @@ ch3 :> 2
MCStampTime == ch1 :> 1 @@ ch2 :> 2 @@ ch3 :> 1
MCPO == ch1 :> 0 @@ ch2 :> 1 @@ ch3 :> 0

One(mode, x, r) == [mode |-> mode, chunks |-> <<[c |-> x, radius |-> r]>>]
MCPut == {One("UploadPin", ch1, 0), One("Request", ch2, 2),
          One("Sync", ch3, 0), One("RequestCache", ch3, 0)}
MCSet == {[mode |-> m, c |-> x] : <<m, x>> \in
            {<<"Sync", ch1>>, <<"Pin", ch3>>, <<"Unpin", ch3>>}}
MCUnreserves == {<<[b |-> B2, r |-> 0], [b |-> B2, r |-> 1]>>}
NoUnreserves == {<<>>}

\* Two cached chunks fill the cache; one of them is read, collected, stored
\* again and pinned.
PinPut == {One("Sync", ch1, 2), One("Sync", ch3, 2)}
PinSet == {[mode |-> "Pin", c |-> ch1]}
=============================================================================
