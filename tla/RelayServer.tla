---------------------------- MODULE RelayServer ----------------------------
(***************************************************************************)
(* The relay of the ad hoc server (adhoc/server.cpp), its streams: every   *)
(* stream socket of a game is a TCP link to the server, and the server     *)
(* pairs the link of a connecting socket with the link that accepts it.    *)
(* The server runs on one thread; each action is what it does with one     *)
(* item of one link.  A link marked dead is out of every search until      *)
(* remove_closed takes it out of the map, so it goes at once here; what it *)
(* leaves its partner is written in that turn of the loop, before any      *)
(* expiry.  Not here: datagrams, which keep no state but the link.         *)
(***************************************************************************)
EXTENDS Naturals, Sequences, FiniteSets

CONSTANTS
    Names,       \* the MAC and port of the games' sockets
    MaxLinks,    \* bound: links made in all
    MaxHandles,  \* bound: stream sockets the games make
    MaxSent,     \* bound: blocks a game sends on one socket
    QueueLimit,  \* kQueueLimit, in blocks
    Window       \* what the network takes in before the console reads, in items

ASSUME RelayAssumption ==
    /\ MaxLinks \in Nat /\ MaxSent \in Nat /\ MaxHandles \in Nat
    /\ QueueLimit \in Nat /\ Window \in Nat \ {0}

VARIABLES
    sessions,  \* the links the server has
    up,        \* per link: what is on its way to the server
    down       \* per link: what is on its way to the console

serverVars == <<sessions, up, down>>

Links == 1 .. MaxLinks
Handles == 1 .. MaxHandles
NoLink == 0

Init(k, n, p) == [op |-> "init", kind |-> k, name |-> n, peer |-> p]
Block(h, i) == [op |-> "block", from |-> h, number |-> i]
Notice(n) == [op |-> "notice", name |-> n]
Eof == [op |-> "eof"]

Kinds == {"pending", "listen", "connect", "accept"}
Blocks == {Block(h, i) : h \in Handles, i \in 1 .. MaxSent}
Notices == {Notice(n) : n \in Names}
Inits == {Init(k, n, p) : k \in Kinds \ {"pending"}, n \in Names, p \in Names}

Sessions == [kind : Kinds, name : Names, peer : Names, partner : Links \union {NoLink},
             announced : BOOLEAN, closing : BOOLEAN, in : Seq(Blocks), out : Seq(Blocks \union Notices)]
SomeName == CHOOSE n \in Names : TRUE
Accepted == [kind |-> "pending", name |-> SomeName, peer |-> SomeName, partner |-> NoLink,
             announced |-> FALSE, closing |-> FALSE, in |-> <<>>, out |-> <<>>]

(* The console has closed the link, or it broke. *)
Ended(c) == \E i \in DOMAIN up[c] : up[c][i] = Eof

(* The state a handler turns into another. *)
Relay == [sessions |-> sessions, down |-> down]
Become(st) == sessions' = st.sessions /\ down' = st.down

AtMost(i, j) == IF i <= j THEN i ELSE j
Least(S) == CHOOSE c \in S : \A d \in S : c <= d

-----------------------------------------------------------------------------
(* X_Mutant, before the definition X, is X as a plausible mistake in the   *)
(* code would have it: the runs' properties must tell the two apart.       *)
Removed_Mutant(st, c) ==
    [sessions |-> [d \in DOMAIN st.sessions \ {c} |->
                     IF d = st.sessions[c].partner THEN [st.sessions[d] EXCEPT !.closing = TRUE]
                     ELSE st.sessions[d]],
     down |-> [st.down EXCEPT ![c] = IF Ended(c) THEN @ ELSE Append(@, Eof)]]
Removed_Silent(st, c) ==
    [sessions |-> [d \in DOMAIN st.sessions \ {c} |->
                     IF d = st.sessions[c].partner THEN [st.sessions[d] EXCEPT !.partner = NoLink]
                     ELSE st.sessions[d]],
     down |-> st.down]

(* remove_closed: the socket is closed, and the partner's is to be.        *)
Removed(st, c) ==
    LET p == st.sessions[c].partner
        left(d) == IF d = p THEN [st.sessions[d] EXCEPT !.partner = NoLink, !.closing = TRUE]
                   ELSE st.sessions[d]
    IN  [sessions |-> [d \in DOMAIN st.sessions \ {c} |-> left(d)],
         down |-> [st.down EXCEPT ![c] = IF Ended(c) THEN @ ELSE Append(@, Eof)]]

(* write: what the network takes.  What the console will not read is lost. *)
Sent(st, c) ==
    LET out == st.sessions[c].out
        taken == IF Ended(c) THEN Len(out) ELSE AtMost(Window - AtMost(Len(st.down[c]), Window), Len(out))
    IN  [sessions |-> [st.sessions EXCEPT ![c].out = SubSeq(out, taken + 1, Len(out))],
         down |-> [st.down EXCEPT ![c] = IF Ended(c) THEN @ ELSE @ \o SubSeq(out, 1, taken)]]

(* The partner writes before anything else looks at it, and goes when it   *)
(* has written all.                                                        *)
Erase(st, c) ==
    LET p == st.sessions[c].partner
        gone == Removed(st, c)
        last == Sent(gone, p)
    IN  IF p = NoLink THEN gone
        ELSE IF last.sessions[p].out = <<>> THEN Removed(last, p) ELSE last

Written(st, c) ==
    LET after == Sent(st, c)
    IN  IF after.sessions[c].closing /\ after.sessions[c].out = <<>> THEN Erase(after, c) ELSE after

(* What is passed on stays in the buffer. *)
Forwarded_Mutant(st, c) ==
    LET s == st.sessions[c]
        room == (QueueLimit + 1) - AtMost(Len(st.sessions[s.partner].out), QueueLimit + 1)
    IN  IF s.partner = NoLink THEN st
        ELSE [st EXCEPT !.sessions[s.partner].out = @ \o SubSeq(s.in, 1, AtMost(room, Len(s.in)))]

(* handle_stream: as much as the partner's queue has room for. *)
Forwarded(st, c) ==
    LET s == st.sessions[c]
        room == (QueueLimit + 1) - AtMost(Len(st.sessions[s.partner].out), QueueLimit + 1)
        taken == AtMost(room, Len(s.in))
    IN  IF s.partner = NoLink THEN st
        ELSE [st EXCEPT !.sessions[s.partner].out = @ \o SubSeq(s.in, 1, taken),
                        !.sessions[c].in = SubSeq(s.in, taken + 1, Len(s.in))]

(* find_session, of a listening socket *)
Listening(ss, n) == {c \in DOMAIN ss : ss[c].kind = "listen" /\ ss[c].name = n}

(* offer_stream *)
Offered(st, c) ==
    LET s == st.sessions[c]
        listening == Listening(st.sessions, s.peer)
    IN  IF s.announced \/ listening = {} THEN st
        ELSE [st EXCEPT !.sessions[Least(listening)].out = Append(@, Notice(s.name)),
                        !.sessions[c].announced = TRUE]

(* accept_stream: the first connecting link it may mean. *)
Waiting(ss, c) ==
    {d \in DOMAIN ss \ {c} : /\ ss[d].kind = "connect" /\ ss[d].partner = NoLink
                             /\ ss[d].name = ss[c].peer /\ ss[d].peer = ss[c].name}
Paired(st, c) ==
    LET waiting == Waiting(st.sessions, c)
        d == Least(waiting)
        pair == [st EXCEPT !.sessions[d].partner = c, !.sessions[c].partner = d,
                           !.sessions[d].out = Append(@, Notice(st.sessions[c].name)),
                           !.sessions[c].out = Append(@, Notice(st.sessions[d].name))]
    IN  IF waiting = {} THEN Erase(st, c) ELSE Forwarded(pair, d)

-----------------------------------------------------------------------------
WantsInput(c) ==
    LET s == sessions[c] IN
    /\ Len(s.in) <= QueueLimit
    /\ s.partner # NoLink => Len(sessions[s.partner].out) <= QueueLimit

Reads(c, op) ==
    /\ c \in DOMAIN sessions
    /\ WantsInput(c)
    /\ up[c] # <<>> /\ Head(up[c]).op = op
    /\ up' = [up EXCEPT ![c] = Tail(@)]

(* handle_init: a listening socket replaces an older one of its name. *)
ReadInit(c) ==
    /\ Reads(c, "init")
    /\ LET i == Head(up[c])
           st == [Relay EXCEPT !.sessions[c].kind = i.kind, !.sessions[c].name = i.name,
                               !.sessions[c].peer = i.peer]
           older == Listening(sessions, i.name) \ {c}
       IN  \/ i.kind = "listen" /\ Become(IF older = {} THEN st ELSE Erase(st, Least(older)))
           \/ i.kind = "connect" /\ Become(Offered(st, c))
           \/ i.kind = "accept" /\ Become(Paired(st, c))

ReadBlock(c) ==
    /\ Reads(c, "block")
    /\ Become(IF sessions[c].kind = "listen" THEN Relay
              ELSE Forwarded([Relay EXCEPT !.sessions[c].in = Append(@, Head(up[c]))], c))

(* What has been read and waits for room. *)
Forward(c) ==
    /\ c \in DOMAIN sessions /\ sessions[c].in # <<>> /\ sessions[c].partner # NoLink
    /\ Len(sessions[sessions[c].partner].out) <= QueueLimit
    /\ Become(Forwarded(Relay, c))
    /\ UNCHANGED up

(* The end of what the console sent: what can still be passed on is. *)
ReadEof(c) ==
    /\ Reads(c, "eof")
    /\ Become(Erase(Forwarded(Relay, c), c))

(* A link that is not being read is only seen to have ended: what is still *)
(* on its way is never read.                                               *)
HangUp(c) ==
    /\ c \in DOMAIN sessions
    /\ ~ WantsInput(c) /\ Ended(c)
    /\ Become(Erase(Forwarded(Relay, c), c))
    /\ up' = [up EXCEPT ![c] = <<>>]

Write(c) ==
    /\ c \in DOMAIN sessions
    /\ \/ sessions[c].out # <<>> /\ (Ended(c) \/ Len(down[c]) < Window)
       \/ sessions[c].out = <<>> /\ sessions[c].closing
    /\ Become(Written(Relay, c))
    /\ UNCHANGED up

(* The console closed the link and has not been read to the end. *)
WriteFails(c) ==
    /\ c \in DOMAIN sessions
    /\ sessions[c].out # <<>> /\ Ended(c)
    /\ Become(Erase(Relay, c))
    /\ up' = [up EXCEPT ![c] = <<>>]

(* expire: a connecting link is offered to a listener that has come since, *)
(* and goes when nobody accepted it, or listened, for kStreamWait.         *)
Offer(c) ==
    /\ c \in DOMAIN sessions /\ sessions[c].kind = "connect" /\ sessions[c].partner = NoLink
    /\ ~ sessions[c].announced /\ Listening(sessions, sessions[c].peer) # {}
    /\ Become(Offered(Relay, c))
    /\ UNCHANGED up

Expire_Mutant(c) ==
    /\ c \in DOMAIN sessions /\ sessions[c].kind = "connect" /\ sessions[c].partner = NoLink
    /\ ~ sessions[c].announced
    /\ Become(Erase(Relay, c))
    /\ up' = [up EXCEPT ![c] = <<>>]
Expire(c) ==
    /\ c \in DOMAIN sessions /\ sessions[c].kind = "connect" /\ sessions[c].partner = NoLink
    /\ sessions[c].announced \/ Listening(sessions, sessions[c].peer) = {}
    /\ Become(Erase(Relay, c))
    /\ up' = [up EXCEPT ![c] = <<>>]

Serve(c) ==
    \/ ReadInit(c) \/ ReadBlock(c) \/ Forward(c) \/ ReadEof(c) \/ HangUp(c)
    \/ Write(c) \/ WriteFails(c) \/ Offer(c) \/ Expire(c)

ServerTypeOK ==
    /\ DOMAIN sessions \subseteq Links
    /\ \A c \in DOMAIN sessions : sessions[c] \in Sessions
    /\ up \in [Links -> Seq(Inits \union Blocks \union {Eof})]
    /\ down \in [Links -> Seq(Notices \union Blocks \union {Eof})]
=============================================================================
