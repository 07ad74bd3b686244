------------------------------- MODULE Rendezvous -------------------------------
(***************************************************************************)
(* What the relay promises about legacy servers, without its handlers, its *)
(* maps and its locks.  A server is put on offer under a username; a       *)
(* client takes the offer, and with it becomes the server's partner; a     *)
(* pair parts as a whole.  Everybody takes part once: a connection is put  *)
(* on offer or takes an offer at most one time, so a pair that has parted  *)
(* is over for both.                                                       *)
(*                                                                         *)
(* The specification does not mention when an offer is withdrawn or a pair *)
(* parts.                                                                  *)
(***************************************************************************)
CONSTANTS People, Nobody, Names

VARIABLES
  offer,    \* name -> who is on offer, or Nobody
  partner,  \* person -> their partner, or Nobody
  fresh     \* the people who have not taken part yet

rendezvous == <<offer, partner, fresh>>

Init ==
  /\ offer = [n \in Names |-> Nobody]
  /\ partner = [p \in People |-> Nobody]
  /\ fresh = People

\* A new offer replaces the one there was.
MakeOffer(p, n) ==
  /\ p \in fresh
  /\ offer' = [offer EXCEPT ![n] = p]
  /\ fresh' = fresh \ {p}
  /\ UNCHANGED partner

TakeOffer(p, n) ==
  /\ p \in fresh
  /\ offer[n] \in People
  /\ partner' = [partner EXCEPT ![offer[n]] = p, ![p] = offer[n]]
  /\ offer' = [offer EXCEPT ![n] = Nobody]
  /\ fresh' = fresh \ {p}

Withdraw(n) ==
  /\ offer' = [offer EXCEPT ![n] = Nobody]
  /\ UNCHANGED <<partner, fresh>>

Part(p) ==
  /\ partner' = [q \in People |-> IF q \in {p, partner[p]} THEN Nobody ELSE partner[q]]
  /\ UNCHANGED <<offer, fresh>>

\* Who asks for an offer that has become stale is turned away, and it is withdrawn.
FindStale(p, n) ==
  /\ offer' = [offer EXCEPT ![n] = Nobody]
  /\ fresh' = fresh \ {p}
  /\ UNCHANGED partner

\* Turned away, or served in some other way.
Leave(p) ==
  /\ fresh' = fresh \ {p}
  /\ UNCHANGED <<offer, partner>>

Next ==
  \/ \E p \in People, n \in Names : MakeOffer(p, n) \/ TakeOffer(p, n) \/ FindStale(p, n)
  \/ \E n \in Names : Withdraw(n)
  \/ \E p \in People : Part(p) \/ Leave(p)

Spec == Init /\ [][Next]_rendezvous
================================================================================
