------------------------------- MODULE Requests -------------------------------
(***************************************************************************)
(* Requests and responses over one connection: the table of pending        *)
(* requests of lib/sync-agent.js (sendAndWait and the receive methods),    *)
(* their dispatch and the pings in lib/peer.js (onSyncRequest,             *)
(* onSyncResponse, pingLoop, onPing, onPong, destroy).                     *)
(*                                                                         *)
(* We look at one side.  A channel that the user removes and adds again is *)
(* a new Channel object, for which the Peer makes a new SyncAgent; calls   *)
(* of the old one go on.  Packets that travel name the channel and the     *)
(* number, not the agent.  The box of a request, under which its response  *)
(* is encrypted, is named after the request <<agent, number>> itself.      *)
(* The world around a Peer that is being destroyed does not change, and    *)
(* the remote is not heard of any more.                                    *)
(***************************************************************************)
EXTENDS Naturals, Sequences, FiniteSets

CONSTANTS
  Agent,        \* the SyncAgents of the channel, in the order they are made
  MaxCalls,     \* bound on the concurrent syncs of an agent
  SeqWidth,     \* bits of a sequence number, 32 in the code; a bound on the requests
                \* of an agent, whose numbers do not come round
  MaxRetries,   \* MAX_PING_RETRIES, 3 in the code
  Env,          \* what may happen, a subset of EnvEvent
  MaxEvents,    \* bound on how many of these happen
  None          \* JavaScript's undefined

EnvEvent == {"remove", "forget", "expire", "stall"}

BanReason == {"no progress", "empty response", "sequence", "box", "type"}

SeqNo == 0..(2^SeqWidth - 1)

\* A ping's number does not come round before its pong must have come.
ASSUME RequestsAssumption ==
  /\ Agent \in Seq(STRING) \ {<< >>} /\ \A k \in DOMAIN Agent : Agent[k] # "ping"
  /\ \A j, k \in DOMAIN Agent : Agent[j] = Agent[k] => j = k
  /\ MaxCalls \in Nat \ {0} /\ SeqWidth \in Nat /\ MaxRetries \in Nat \ {0}
  /\ MaxRetries <= 2^SeqWidth
  /\ Env \subseteq EnvEvent /\ MaxEvents \in Nat
  /\ None \notin BanReason

Agents == {Agent[k] : k \in DOMAIN Agent}
Request == (Agents \cup {"ping"}) \X SeqNo

VARIABLES
  conn,       \* the Peer: "live", "closing" (in destroy()) or "closed"
  banned,     \* the BanError the Peer was destroyed with, or None
  made,       \* how many agents were made
  present,    \* the channel is in Protocol.channels
  remoteHas,  \* the remote has the channel
  valid,      \* our identity has a valid chain
  stalled,    \* nothing comes from the remote any more
  seq,        \* seq[a]: SyncAgent.seq; seq["ping"]: Peer.ping.seq
  call,       \* call[a][k]: what the k-th concurrent sync of an agent does
  status,     \* status[r]: "asked" while r is in pendingRequests and awaited
  said,       \* history: what the remote answered to r
  retries,    \* Peer.ping.retries
  outbox,     \* packets on their way to the remote
  inbox       \* packets on their way from the remote

world == <<made, present, remoteHas, valid, stalled>>
table == <<seq, call, status>>
peer == <<conn, banned, retries>>
vars == <<world, table, peer, said, outbox, inbox>>

-----------------------------------------------------------------------------
Slot == 1..MaxCalls
Idle == [doing |-> "idle", seq |-> 0]
Waiting(type, n) == [doing |-> type, seq |-> n]
Paged == [doing |-> "page", seq |-> 0]   \* between two requests

Current == IF present THEN Agent[made] ELSE None
Pending(r) == status[r] = "asked"

\* A packet to a remote that has stalled is lost.
Transmit(packet) == outbox' = IF stalled THEN outbox ELSE Append(outbox, packet)

\* SyncAgent.getNextSeq(), and the same for pings.
NextSeq(n) == (n + 1) % 2^SeqWidth

\* Mutant: one ping more.
OneMore(n) == n > MaxRetries

TooMany(n) == n >= MaxRetries

\* Mutant: any pong will do.
AnyPong(n) == {r \in {"ping"} \X SeqNo : Pending(r)}

\* The waits that onPong() resolves.
PongFor(n) == {r \in {<<"ping", n>>} : Pending(r)}

\* Peer.destroy() up to its first await: all agents are destroyed and their waits
\* rejected.  The ping is awaited on; the wait list closes with the socket.
Destroy(reason) ==
  /\ conn' = "closing" /\ banned' = reason
  /\ status' = [r \in Request |-> IF Pending(r) /\ r[1] # "ping" THEN "failed" ELSE status[r]]
  /\ call' = [a \in Agents |-> [k \in Slot |-> Idle]]

\* A BanError out of loop() reaches destroy() in connect(); if that has run before, it
\* throws and nobody is banned.
Ban(reason) ==
  IF conn = "live" THEN Destroy(reason) ELSE UNCHANGED <<conn, banned, status, call>>

-----------------------------------------------------------------------------
Init ==
  /\ conn = "live" /\ banned = None
  /\ made = 1 /\ present = TRUE /\ remoteHas = TRUE
  /\ valid = TRUE /\ stalled = FALSE
  /\ seq = [a \in Agents \cup {"ping"} |-> 0]
  /\ call = [a \in Agents |-> [k \in Slot |-> Idle]]
  /\ status = [r \in Request |-> "unused"]
  /\ said = [r \in Request |-> "nothing"]
  /\ retries = 0
  /\ outbox = << >> /\ inbox = << >>

\* SyncAgent.sendAndWait() with a valid chain.
Send(a, k, type) ==
  LET r == <<a, seq[a]>>
  IN  /\ valid /\ status[r] = "unused"
      /\ status' = [status EXCEPT ![r] = "asked"]
      /\ said' = [said EXCEPT ![r] = "nothing"]
      /\ seq' = [seq EXCEPT ![a] = NextSeq(@)]
      /\ call' = [call EXCEPT ![a][k] = Waiting(type, seq[a])]
      /\ Transmit([type |-> type, seq |-> seq[a], box |-> r])
      /\ UNCHANGED <<peer, world, inbox>>

\* synchronize() on the present channel: a sync begins with a query.  Which slot it
\* takes makes no difference.
Start(k) ==
  /\ conn = "live" /\ present
  /\ call[Current][k] = Idle /\ \A j \in Slot : call[Current][j] = Idle => k <= j
  /\ Send(Current, k, "query")

\* The sync goes on with the next page, or with the messages it wants of this one, also
\* when its channel was removed in the meantime.
Continue(a, k) ==
  /\ conn = "live" /\ call[a][k] = Paged
  /\ Send(a, k, "query") \/ Send(a, k, "bulk")

Finish(a, k) ==
  /\ call[a][k] = Paged
  /\ call' = [call EXCEPT ![a][k] = Idle]
  /\ UNCHANGED <<world, peer, seq, status, said, outbox, inbox>>

\* Without a valid chain sendAndWait() returns false and sends nothing.  A query takes
\* that for an empty page and the sync ends; for bulk() it is a forward index of 0, which
\* receiveBulk() answers with a ban.
Unable(a, k) ==
  /\ conn = "live" /\ ~valid /\ call[a][k] = Paged
  /\ seq' = [seq EXCEPT ![a] = NextSeq(@)]
  /\ \/ /\ call' = [call EXCEPT ![a][k] = Idle]
        /\ UNCHANGED <<peer, status>>
     \/ Destroy("no progress") /\ UNCHANGED retries
  /\ UNCHANGED <<world, said, outbox, inbox>>

\* Mutant: the failed sync is given up, the connection goes on.
GiveUp(a, k) ==
  /\ call' = [call EXCEPT ![a][k] = Idle]
  /\ status' = [status EXCEPT ![<<a, call[a][k].seq>>] = "failed"]
  /\ UNCHANGED <<conn, banned>>

\* A failed sync destroys the Peer.
SyncFails(a, k) == Destroy(None)

\* The wait for the response ends after options.timeout; the entry is deleted.
Timeout(a, k) ==
  /\ call[a][k].doing \in {"query", "bulk"}
  /\ SyncFails(a, k)
  /\ UNCHANGED <<world, seq, said, retries, outbox, inbox>>

-----------------------------------------------------------------------------
Happened ==
  {e \in Env : CASE e = "remove" -> ~present \/ made > 1 [] e = "forget" -> ~remoteHas
                 [] e = "expire" -> ~valid [] e = "stall" -> stalled}

MayHappen(e) ==
  conn = "live" /\ e \in Env \ Happened /\ Cardinality(Happened) < MaxEvents

(* The remote: its loop handles one packet after the other. *)

\* onSyncRequest(), and onPing().
Reply ==
  /\ outbox # << >> /\ conn = "live"
  /\ LET p == Head(outbox)
         type == IF p.type # "ping" /\ ~remoteHas THEN "empty" ELSE p.type
     IN  /\ inbox' = Append(inbox, [p EXCEPT !.type = type])
         /\ said' = [said EXCEPT ![p.box] = IF type = "empty" THEN "empty" ELSE "data"]
  /\ outbox' = Tail(outbox)
  /\ UNCHANGED <<world, table, peer>>

\* protocol.removeChannel() at the remote.
Forget ==
  /\ MayHappen("forget")
  /\ remoteHas' = FALSE
  /\ UNCHANGED <<made, present, valid, stalled, table, peer, said, outbox, inbox>>

\* The network fails without a word: whatever is on its way is lost.
Stall ==
  /\ MayHappen("stall")
  /\ stalled' = TRUE /\ outbox' = << >> /\ inbox' = << >>
  /\ UNCHANGED <<made, present, remoteHas, valid, table, peer, said>>

-----------------------------------------------------------------------------
(* Packets from the remote *)

Packet == Head(inbox)

Receive ==
  /\ inbox # << >>
  /\ inbox' = Tail(inbox)
  /\ UNCHANGED <<world, seq, said, outbox>>

\* The wait of request r is over; the call that made it goes on.
Resolve(r, outcome, next) ==
  /\ status' = [status EXCEPT ![r] = outcome]
  /\ call' = [call EXCEPT ![r[1]] = [k \in Slot |->
                IF @[k].doing \in {"query", "bulk"} /\ @[k].seq = r[2] THEN next ELSE @[k]]]

Asked(r) == {call[r[1]][k].doing : k \in {j \in Slot : call[r[1]][j].seq = r[2]}} \cap {"query", "bulk"}

\* A response for a channel we have not (any more) is ignored.
IgnoreResponse ==
  /\ Receive /\ Packet.type # "ping" /\ ~present
  /\ UNCHANGED <<peer, call, status>>

\* receiveEmptyResponse(): an empty page ends a sync; a bulk makes no progress.
OnEmptyResponse ==
  /\ Receive /\ Packet.type = "empty" /\ present
  /\ LET r == <<Current, Packet.seq>>
     IN  IF ~Pending(r) THEN Ban("empty response")
         ELSE IF "bulk" \in Asked(r)
         THEN /\ Destroy("no progress")
         ELSE Resolve(r, "empty", Idle) /\ UNCHANGED <<conn, banned>>
  /\ UNCHANGED retries

\* onSyncResponse(), receiveQueryResponse() and receiveBulkResponse().
OnSyncResponse ==
  /\ Receive /\ Packet.type \in {"query", "bulk"} /\ present
  /\ LET r == <<Current, Packet.seq>>
     IN  IF ~Pending(r) THEN Ban("sequence")
         ELSE IF Packet.box # r THEN Ban("box")
         ELSE IF Packet.type \notin Asked(r) THEN Ban("type")
         ELSE Resolve(r, "answered", Paged) /\ UNCHANGED <<conn, banned>>
  /\ UNCHANGED retries

-----------------------------------------------------------------------------
(* Pings *)

Awaited == {r \in {"ping"} \X SeqNo : Pending(r)}

\* Mutant: the loop ends with the first ping that fails.
NoRetry == conn = "live" /\ Awaited = {} /\ retries = 0

MayPing == conn = "live" /\ Awaited = {}

SendPing ==
  /\ MayPing
  /\ LET r == <<"ping", seq["ping"]>>
     IN  /\ status' = [status EXCEPT ![r] = "asked"]
         /\ said' = [said EXCEPT ![r] = "nothing"]
         /\ Transmit([type |-> "ping", seq |-> r[2], box |-> r])
  /\ seq' = [seq EXCEPT !["ping"] = NextSeq(@)]
  /\ UNCHANGED <<world, peer, call, inbox>>

OnPong ==
  /\ Receive /\ Packet.type = "ping"
  /\ LET waits == PongFor(Packet.seq)
     IN  /\ status' = [r \in Request |-> IF r \in waits THEN "answered" ELSE status[r]]
         /\ retries' = IF waits # {} THEN 0 ELSE retries
  /\ UNCHANGED <<conn, banned, call>>

\* After MaxRetries pings in a row without a pong pingLoop() throws.
PingTimeout ==
  /\ conn = "live" /\ Awaited # {}
  /\ LET n == retries + 1
         over == [r \in Request |-> IF r \in Awaited THEN "failed" ELSE status[r]]
     IN  /\ retries' = n
         /\ IF TooMany(n)
            THEN /\ conn' = "closing"
                 /\ status' = [r \in Request |-> IF Pending(r) THEN "failed" ELSE status[r]]
                 /\ call' = [a \in Agents |-> [k \in Slot |-> Idle]]
            ELSE status' = over /\ UNCHANGED <<conn, call>>
  /\ UNCHANGED <<world, banned, seq, said, outbox, inbox>>

-----------------------------------------------------------------------------
(* The user, and the end *)

\* Protocol.removeChannel() does not look at the agents.
Remove ==
  /\ MayHappen("remove")
  /\ present' = FALSE
  /\ UNCHANGED <<made, remoteHas, valid, stalled, table, peer, said, outbox, inbox>>

AddAgain ==
  /\ ~present /\ made < Len(Agent) /\ conn = "live"
  /\ present' = TRUE /\ made' = made + 1
  /\ UNCHANGED <<remoteHas, valid, stalled, table, peer, said, outbox, inbox>>

Expire ==
  /\ MayHappen("expire")
  /\ valid' = FALSE
  /\ UNCHANGED <<made, present, remoteHas, stalled, table, peer, said, outbox, inbox>>

\* destroy() has sent its error and closes the socket and the wait list.
Close ==
  /\ conn = "closing"
  /\ conn' = "closed"
  /\ status' = [r \in Request |-> IF Pending(r) THEN "failed" ELSE status[r]]
  /\ outbox' = << >> /\ inbox' = << >>
  /\ UNCHANGED <<world, banned, retries, seq, call, said>>

Progress ==
  \/ \E a \in Agents, k \in Slot : Timeout(a, k)
  \/ SendPing \/ PingTimeout \/ Close

Next ==
  \/ Progress
  \/ \E k \in Slot : Start(k)
  \/ \E a \in Agents, k \in Slot : Continue(a, k) \/ Finish(a, k) \/ Unable(a, k)
  \/ Reply \/ Forget \/ Stall
  \/ IgnoreResponse \/ OnEmptyResponse \/ OnSyncResponse \/ OnPong
  \/ Remove \/ AddAgain \/ Expire

Spec == Init /\ [][Next]_vars

\* Timers fire and sockets close; nothing need come from the network.
FairSpec == Spec /\ WF_vars(SendPing) /\ WF_vars(PingTimeout) /\ WF_vars(Close)

-----------------------------------------------------------------------------
(* Properties *)

TypeOK ==
  /\ conn \in {"live", "closing", "closed"}
  /\ banned \in BanReason \cup {None}
  /\ made \in DOMAIN Agent /\ {present, remoteHas, valid, stalled} \subseteq BOOLEAN
  /\ seq \in [Agents \cup {"ping"} -> SeqNo]
  /\ \A a \in Agents, k \in Slot :
       call[a][k].doing \in {"query", "bulk"} <=> \E n \in SeqNo :
         call[a][k] \in {Waiting("query", n), Waiting("bulk", n)} /\ Pending(<<a, n>>)
  /\ retries \in 0..MaxRetries /\ (conn = "live" => retries < MaxRetries)
  /\ Cardinality(Awaited) <= 1

\* An honest remote is banned only when the channel was removed and added here with a
\* response on its way, when it removed the channel itself, or when our own chain expired in the
\* middle of a sync. In particular a late response to a request that timed out bans nobody,
\* nor do the responses to concurrent syncs.
BanExplained ==
  /\ banned \in {"sequence", "box"} => made > 1
  /\ banned = "empty response" => made > 1 /\ ~remoteHas
  /\ banned = "no progress" => ~remoteHas \/ ~valid
  /\ banned # "type"

\* The table of pending requests, sequence numbers and boxes implement the abstract
\* requests: no response is ever taken for the answer to another request, also not a
\* late pong or one to an agent that is gone.
Promise == INSTANCE Rpc WITH Request <- Request, status <- status, said <- said
ImplementsRpc == Promise!Spec

\* A remote from which nothing comes any more is noticed, whether a sync is running or not.
DeadNoticed == stalled ~> conn = "closed"
===============================================================================
