------------------------------ MODULE HashChain ------------------------------
(***************************************************************************)
(* What docs/SCHEMA.md promises of the ledger, without the file, the       *)
(* writers or the failures: a sequence of events in which each one links   *)
(* to the one before, and which only ever grows by one linked event.  The  *)
(* lossy variant may also lose a suffix, as storage that is never synced   *)
(* can.                                                                    *)
(***************************************************************************)
EXTENDS LedgerFile

CONSTANT Body           \* the contents an event can have

VARIABLE chain

Init == chain = << >>

Extend(b) == chain' = Append(chain, SealEvent(PreviousHash(chain), b))

Lose == \E n \in 0..Len(chain) : chain' = SubSeq(chain, 1, n)

Spec == Init /\ [][\E b \in Body : Extend(b)]_chain

LossySpec == Init /\ [][Lose \/ \E b \in Body : Extend(b)]_chain
=============================================================================
