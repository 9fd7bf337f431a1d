----------------------------- MODULE SealedBids -----------------------------
(***************************************************************************)
(* What a bidder may rely on, whatever the registry does inside: a bid     *)
(* waits for its round to close; a round closes at once for every bid in   *)
(* it, awards at most one bidder, grants at most one bond and never awards *)
(* a bidder other than the one it granted to; an issuer that restarts      *)
(* answers nobody, and a bond granted may still be minted later.           *)
(***************************************************************************)
EXTENDS Sequences

CONSTANTS Tasks, Bidders, NoBidder

VARIABLES
  fips,     (* the bidder of each task                                       *)
  promise,  (* what each task was told                                       *)
  grantee,  (* the bidder this round's bond was granted to                   *)
  bonds     (* the bonds granted, oldest first, and whether they are minted  *)

vars == <<fips, promise, grantee, bonds>>

Waiting == {t \in Tasks : promise[t] = "parked"}

Init ==
  /\ fips \in [Tasks -> Bidders]
  /\ promise = [t \in Tasks |-> "idle"]
  /\ grantee = NoBidder
  /\ bonds = <<>>

Place(t) ==
  /\ promise[t] = "idle" /\ grantee = NoBidder
  /\ promise' = [promise EXCEPT ![t] = "parked"]
  /\ UNCHANGED <<fips, grantee, bonds>>

TurnAway(t) ==
  /\ promise[t] = "idle" /\ Waiting # {}
  /\ promise' = [promise EXCEPT ![t] = "rejected"]
  /\ UNCHANGED <<fips, grantee, bonds>>

(* The round's bond goes to f, the bidder of a waiting bid.                   *)
GrantTo(f) ==
  /\ grantee = NoBidder
  /\ \E t \in Waiting : fips[t] = f
  /\ grantee' = f
  /\ bonds' = Append(bonds, [to |-> f, minted |-> FALSE])
  /\ UNCHANGED <<fips, promise>>

(* A bond granted may take longer to be minted than its round to close.       *)
Minted(i) ==
  /\ ~ bonds[i].minted
  /\ bonds' = [bonds EXCEPT ![i].minted = TRUE]
  /\ UNCHANGED <<fips, promise, grantee>>

(* The round ends: the bids of f, if anyone, are awarded, the rest rejected. *)
Close(f) ==
  /\ Waiting # {}
  /\ f = NoBidder \/ grantee \in {NoBidder, f}
  /\ promise' = [t \in Tasks |->
                   IF t \notin Waiting THEN promise[t]
                   ELSE IF fips[t] = f THEN "awarded" ELSE "rejected"]
  /\ grantee' = NoBidder
  /\ UNCHANGED <<fips, bonds>>

Lose ==
  /\ Waiting # {}
  /\ promise' = [t \in Tasks |-> IF t \in Waiting THEN "lost" ELSE promise[t]]
  /\ grantee' = NoBidder
  /\ UNCHANGED <<fips, bonds>>

CloseRound == \E f \in Bidders \cup {NoBidder} : Close(f)

Next ==
  \/ \E t \in Tasks : Place(t) \/ TurnAway(t)
  \/ \E f \in Bidders : GrantTo(f)
  \/ \E i \in DOMAIN bonds : Minted(i)
  \/ CloseRound
  \/ Lose

SafeSpec == Init /\ [][Next]_vars

Spec == SafeSpec /\ WF_vars(CloseRound)

=============================================================================
