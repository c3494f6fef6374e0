------------------------------ MODULE RoomFeed ------------------------------
(***************************************************************************)
(* What the chat promises its peers: every room has one conversation, to   *)
(* which each of those who entered adds what it says, completely and in    *)
(* its order; and whoever is inside a room is sent each message as it is   *)
(* added, until it is sent nothing more.  Nobody comes back.               *)
(***************************************************************************)
EXTENDS Naturals, Sequences

CONSTANTS
    Peers,
    Rooms,
    MaxSaid,    \* bound: MaxSaid[p] messages are said by p
    Nowhere     \* the room of a peer that has not entered one

VARIABLES
    talk,   \* talk[m]: the conversation of room m
    heard,  \* heard[p]: what p has been sent of it
    place,  \* place[p]: "outside", "inside" or "gone"
    at      \* at[p]: the room p has entered

vars == <<talk, heard, place, at>>

Init ==
    /\ talk = [m \in Rooms |-> <<>>]
    /\ heard = [p \in Peers |-> <<>>]
    /\ place = [p \in Peers |-> "outside"]
    /\ at = [p \in Peers |-> Nowhere]

\* A peer enters its room; it may have lost its connection meanwhile.
Enter(p, m) ==
    /\ place[p] = "outside"
    /\ at' = [at EXCEPT ![p] = m]
    /\ \E to \in {"inside", "gone"} : place' = [place EXCEPT ![p] = to]
    /\ UNCHANGED <<talk, heard>>

\* Some of those inside are sent nothing more.
Part(leaving) ==
    /\ \A p \in leaving : place[p] = "inside"
    /\ place' = [p \in Peers |-> IF p \in leaving THEN "gone" ELSE place[p]]
    /\ UNCHANGED <<talk, heard, at>>

\* What p has added to conversation t: places of that kind, and numbers said.
Has(t, p, kind) == \E i \in 1..Len(t) : t[i].from = p /\ t[i].kind = kind
Said(t, p) == {t[i].n : i \in {j \in 1..Len(t) : t[j].from = p /\ t[j].kind = "said"}}

\* The messages of one peer: it is announced once, leaves once and only after
\* that, is then silent, and of what it says nothing is lost or repeated.
MayAdd(t, message) ==
    LET p == message.from IN
    /\ ~ Has(t, p, "left")
    /\ message.kind = "joined" => ~ Has(t, p, "joined")
    /\ message.kind = "left" => Has(t, p, "joined")
    /\ message.kind = "said" => Said(t, p) = 1 .. message.n - 1

Add(message) ==
    LET p == message.from
        m == message.room
    IN
    /\ at[p] = m /\ place[p] # "outside"
    /\ MayAdd(talk[m], message)
    /\ talk' = [talk EXCEPT ![m] = Append(@, message)]
    /\ heard' = [q \in Peers |-> IF place[q] = "inside" /\ at[q] = m
                                   THEN Append(heard[q], message) ELSE heard[q]]
    /\ UNCHANGED <<place, at>>

Next ==
    \/ \E p \in Peers, m \in Rooms : Enter(p, m)
    \/ \E leaving \in SUBSET Peers : Part(leaving)
    \/ \E p \in Peers, m \in Rooms :
        \/ \E kind \in {"joined", "left"} :
            Add([room |-> m, from |-> p, kind |-> kind, n |-> 0])
        \/ \E n \in 1..MaxSaid[p] :
            Add([room |-> m, from |-> p, kind |-> "said", n |-> n])

Spec == Init /\ [][Next]_vars
=============================================================================
