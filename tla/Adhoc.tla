------------------------------- MODULE Adhoc -------------------------------
(***************************************************************************)
(* The consoles' clients, the ad hoc server and the connections between    *)
(* them.                                                                   *)
(***************************************************************************)
EXTENDS AdhocClient

vars == <<up, down, events, players, hosts, failing, client, made>>

Init ==
    /\ up = [c \in Conns |-> <<>>] /\ down = [c \in Conns |-> <<>>] /\ events = 0
    /\ players = <<>> /\ hosts = [g \in Groups |-> NoMac] /\ failing = {}
    /\ client = [m \in Macs |-> Off] /\ made = 0

(* A connection the server and a client both use. *)
ConnectionBreaks ==
    \E m \in Macs :
        /\ client[m].conn \in DOMAIN players
        /\ Break(client[m].conn)
        /\ UNCHANGED <<serverVars, client, made>>

Next ==
    \/ ServerNext /\ UNCHANGED <<client, made>>
    \/ ClientNext
    \/ ConnectionBreaks

Spec == Init /\ [][Next]_vars

(* The server's loop handles what it has read, a client's thread what it   *)
(* has received, and the client connects again with a growing delay.       *)
Fairness ==
    /\ WF_vars((\E c \in Conns : Handle(c)) /\ UNCHANGED <<client, made>>)
    /\ WF_vars(\E m \in Macs : Receive(m) \/ LogIn(m))
FairSpec == Spec /\ Fairness

-----------------------------------------------------------------------------
TypeOK ==
    /\ ServerTypeOK
    /\ client \in [Macs -> Clients]
    /\ made \in 0 .. MaxConns

(* A new login with a MAC already logged in replaces the older connection  *)
(* (server.hpp), in whatever order connections end and begin.              *)
OneLoginPerMac ==
    \A c, d \in DOMAIN players : players[c].mac = players[d].mac /\ c # d => players[c].mac = NoMac

(* Nothing is under way between the server and a console. *)
Settled(m) ==
    LET c == client[m].conn IN c \in DOMAIN players /\ up[c] = <<>> /\ down[c] = <<>>
GroupOf(m) == players[client[m].conn].group

(* A game is told it is in a group only while the server has it there, and *)
(* then it knows every other member and the members agree on the host,     *)
(* however joins, leaves, lost connections and logins cross.               *)
JoinedIsMember ==
    \A m \in Macs : Settled(m) /\ client[m].joined => GroupOf(m) = client[m].wanted
MembersKnown ==
    \A m \in Macs : Settled(m) /\ client[m].joined =>
        \A c \in GroupMembers(players, GroupOf(m)) \ {client[m].conn} :
            [mac |-> players[c].mac, id |-> c] \in client[m].peers
HostAgreed ==
    \A m, n \in Macs :
        Settled(m) /\ Settled(n) /\ client[m].joined /\ client[n].joined /\ GroupOf(m) = GroupOf(n)
            => client[m].host = client[n].host

(* Games that go on wanting one group meet in it.                          *)
Sees(m, n) == client[m].connected /\ \E e \in client[m].peers : e.mac = n
WantTheSame == \E g \in Groups : \A m \in Macs : client[m].wanted = g
HaveMet == \A m, n \in Macs : m # n => Sees(m, n)
PlayersMeet == <>[]WantTheSame => <>[]HaveMet

(* "Leaving, or losing the connection, tells the others" (server.hpp): no  *)
(* game goes on seeing a player that has gone.                             *)
GoneIsTold ==
    \A m \in Macs : Settled(m) /\ client[m].joined =>
        \A e \in client[m].peers : e.id \in GroupMembers(players, GroupOf(m))
=============================================================================
