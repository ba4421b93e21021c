------------------------------ MODULE Channel ------------------------------
(***************************************************************************)
(* What an IPC endpoint promises: a FIFO channel of messages.  A message is  *)
(* accepted once, and taken out once, in the order of acceptance.            *)
(***************************************************************************)
EXTENDS Naturals, Sequences

CONSTANTS Endpoint, Tag

VARIABLE chan

InitChan == chan = [e \in Endpoint |-> <<>>]

Accept(e, tag) == chan' = [chan EXCEPT ![e] = Append(@, tag)]

Take(e) ==
  /\ chan[e] # <<>>
  /\ chan' = [chan EXCEPT ![e] = Tail(@)]

NextChan == \E e \in Endpoint : Take(e) \/ \E tag \in Tag : Accept(e, tag)

Chan == InitChan /\ [][NextChan]_chan
=============================================================================
