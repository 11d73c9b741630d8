--------------------------- MODULE MCPersistence ---------------------------
(* Two protocols of the persistence coordinator for TLC, one at a time:    *)
(* the write-behind queue of one live session, and how sessions of one id  *)
(* take the stored log over from each other (there the queue is abstracted *)
(* to what WriteBehind shows of it).                                       *)
EXTENDS WriteBehind, TLC

CONSTANTS Sessions, Repair, NoOne, MaxOwned, MaxReloads, MaxFails

VARIABLES protocol,
          store, torn, state, events, alive, inits, seeds, queue, writing, retire, chain, plugin, spent

ownership == <<store, torn, state, events, alive, inits, seeds, queue, writing, retire, chain,
               plugin, spent>>

Own == INSTANCE SessionOwnership WITH MaxEvents <- MaxOwned, init <- inits, seed <- seeds

MCInit == /\ protocol \in {"write-behind", "ownership"}
          /\ Init /\ Own!Init
          /\ protocol = "write-behind" => store = <<>>
          /\ protocol = "ownership" => log = 0
MCNext == /\ UNCHANGED protocol
          /\ \/ protocol = "write-behind" /\ Next /\ UNCHANGED ownership
             \/ protocol = "ownership" /\ Own!Next /\ UNCHANGED vars

(* Nothing is owed to the queue in its initial states, so it is fair by    *)
(* standing still where ownership is looked at.                            *)
MCSpec == MCInit /\ [][MCNext]_<<protocol, vars, ownership>> /\ Fairness

(* OwnerContinuesLog of SessionOwnership, stated and explained there. *)
OwnerContinuesLog == Own!OwnerContinuesLog

(* Who may write, and what is let go: the parts are stated in              *)
(* SessionOwnership.                                                       *)
OwnershipIsSound == Own!TypeOK /\ Own!WriterOwns /\ Own!ReleasedIsStored

(* Flushes are answered and events become durable: the parts are stated in *)
(* WriteBehind.                                                            *)
EverythingSettles == FlushReturns /\ BecomesDurable
=============================================================================
