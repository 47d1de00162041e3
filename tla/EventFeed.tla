------------------------------ MODULE EventFeed ------------------------------
(***************************************************************************)
(* What the progress stream of a check promises its readers: one feed that *)
(* only grows at its end, and readers who receive it in order, from the    *)
(* start, without a gap or a repetition, until they start over.            *)
(***************************************************************************)
EXTENDS Naturals, Sequences

CONSTANTS Readers

VARIABLES
    feed,     \* the ids of the published events
    received  \* what each reader has received since it last started over

IsPrefixOf(s, t) == Len(s) <= Len(t) /\ s = SubSeq(t, 1, Len(s))

FeedInit ==
    /\ Len(feed) = 1
    /\ received = [r \in Readers |-> <<>>]

Publish ==
    /\ IsPrefixOf(feed, feed')
    /\ UNCHANGED received

Receive(r) ==
    /\ Len(received[r]) < Len(feed)
    /\ received' = [received EXCEPT ![r] = Append(@, feed[Len(@) + 1])]
    /\ UNCHANGED feed

StartOver(r) ==
    /\ received' = [received EXCEPT ![r] = <<>>]
    /\ UNCHANGED feed

FeedNext == Publish \/ \E r \in Readers : Receive(r) \/ StartOver(r)

FeedSpec == FeedInit /\ [][FeedNext]_<<feed, received>>
=============================================================================
