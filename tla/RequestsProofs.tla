--------------------------- MODULE RequestsProofs ---------------------------
(***************************************************************************)
(* Theorems about Requests: its tables, numbers and boxes implement Rpc,   *)
(* and an honest remote is banned only for the reasons that BanExplained   *)
(* lists; for any number of agents, concurrent syncs and retries, and      *)
(* numbers of any width.                                                   *)
(***************************************************************************)
EXTENDS Requests, Integers, SequenceTheorems, FiniteSetTheorems, TLAPS

Doing == {"idle", "page", "query", "bulk"}
Status == {"unused", "asked", "answered", "empty", "failed"}
PacketOut == [type : {"query", "bulk", "ping"}, seq : SeqNo, box : Request]
PacketIn == [type : {"query", "bulk", "ping", "empty"}, seq : SeqNo, box : Request]

Types ==
  /\ conn \in {"live", "closing", "closed"} /\ banned \in BanReason \cup {None}
  /\ made \in DOMAIN Agent
  /\ present \in BOOLEAN /\ remoteHas \in BOOLEAN /\ valid \in BOOLEAN /\ stalled \in BOOLEAN
  /\ seq \in [Agents \cup {"ping"} -> SeqNo]
  /\ call \in [Agents -> [Slot -> [doing : Doing, seq : SeqNo]]]
  /\ status \in [Request -> Status] /\ said \in [Request -> {"nothing", "data", "empty"}]
  /\ retries \in 0..MaxRetries /\ (conn = "live" => retries < MaxRetries)
  /\ outbox \in Seq(PacketOut) /\ inbox \in Seq(PacketIn)

-----------------------------------------------------------------------------
(* Numbers and queues *)

LEMMA Constants ==
  /\ 2^SeqWidth \in Nat \ {0} /\ MaxRetries \in Nat \ {0} /\ MaxRetries <= 2^SeqWidth
  /\ SeqNo = 0..(2^SeqWidth - 1) /\ 0 \in SeqNo
  /\ MaxCalls \in Nat \ {0} /\ Slot = 1..MaxCalls
  /\ Len(Agent) \in Nat \ {0} /\ DOMAIN Agent = 1..Len(Agent) /\ 1 \in DOMAIN Agent
  /\ "ping" \notin Agents /\ None \notin BanReason
<1>1. 2^SeqWidth \in Int
  BY RequestsAssumption
<1>2. /\ Agent \in Seq(STRING) /\ Agent # << >>
      /\ \A k \in DOMAIN Agent : Agent[k] # "ping"
  BY RequestsAssumption
<1>3. Len(Agent) \in Nat \ {0} /\ DOMAIN Agent = 1..Len(Agent) /\ 1 \in DOMAIN Agent
  BY <1>2, LenProperties
<1>4. "ping" \notin Agents
  BY <1>2 DEF Agents
<1> QED
  BY <1>1, <1>3, <1>4, RequestsAssumption DEF SeqNo, Slot

(* How many numbers ago n was given out, if now is the next one. *)
Age(now, n) == IF n < now THEN now - n ELSE now - n + 2^SeqWidth

LEMMA AgeType ==
  ASSUME NEW now \in SeqNo, NEW n \in SeqNo
  PROVE  Age(now, n) \in 1..2^SeqWidth /\ (Age(now, n) = 2^SeqWidth <=> n = now)
BY Constants DEF Age

LEMMA AgeUnique ==
  ASSUME NEW now \in SeqNo, NEW m \in SeqNo, NEW n \in SeqNo, Age(now, m) = Age(now, n)
  PROVE  m = n
BY Constants DEF Age

LEMMA NextSeqType ==
  ASSUME NEW n \in SeqNo
  PROVE  NextSeq(n) \in SeqNo /\ NextSeq(n) = IF n = 2^SeqWidth - 1 THEN 0 ELSE n + 1
BY Constants DEF NextSeq

LEMMA AgeNext ==
  ASSUME NEW now \in SeqNo
  PROVE  /\ Age(NextSeq(now), now) = 1
         /\ \A n \in SeqNo : Age(now, n) < 2^SeqWidth => Age(NextSeq(now), n) = Age(now, n) + 1
<1> DEFINE next == NextSeq(now)
<1>1. /\ next = IF now = 2^SeqWidth - 1 THEN 0 ELSE now + 1
      /\ 2^SeqWidth \in Nat \ {0} /\ now \in 0..(2^SeqWidth - 1)
  BY Constants, NextSeqType
<1> HIDE DEF next
<1>2. Age(next, now) = 1
  BY <1>1 DEF Age
<1>3. ASSUME NEW n \in SeqNo, Age(now, n) < 2^SeqWidth PROVE Age(next, n) = Age(now, n) + 1
  <2>1. n \in 0..(2^SeqWidth - 1)
    BY Constants
  <2>2. CASE n < now
    BY <1>1, <2>1, <2>2 DEF Age
  <2>3. CASE ~(n < now)
    <3>1. n > now
      BY <1>1, <1>3, <2>1, <2>3 DEF Age
    <3> QED
      BY <1>1, <2>1, <3>1 DEF Age
  <2> QED
    BY <2>2, <2>3
<1> QED
  BY <1>2, <1>3 DEF next

Packets(s) == {s[i] : i \in 1..Len(s)}

(* Pings travel in the order of their numbers; all other packets have different boxes. *)
Ahead(now, p, q) ==
  IF p.box[1] = "ping" /\ q.box[1] = "ping" THEN Age(now, p.seq) > Age(now, q.seq) ELSE p.box # q.box
InOrder(now, s) == \A i, j \in 1..Len(s) : i < j => Ahead(now, s[i], s[j])

LEMMA OnAppend ==
  ASSUME NEW S, NEW s \in Seq(S), NEW e \in S
  PROVE  /\ Append(s, e) \in Seq(S)
         /\ Packets(Append(s, e)) = Packets(s) \cup {e}
         /\ \A now : InOrder(now, s) /\ (\A p \in Packets(s) : Ahead(now, p, e)) => InOrder(now, Append(s, e))
<1> DEFINE t == Append(s, e)
<1>1. /\ t \in Seq(S) /\ Len(s) \in Nat /\ Len(t) = Len(s) + 1
      /\ \A i \in 1..Len(s) : t[i] = s[i]
      /\ t[Len(s) + 1] = e
  BY AppendProperties, LenProperties
<1> HIDE DEF t
<1>2. Packets(t) = Packets(s) \cup {e}
  BY <1>1 DEF Packets
<1>3. ASSUME NEW now, InOrder(now, s), \A p \in Packets(s) : Ahead(now, p, e)
      PROVE  InOrder(now, t)
  <2> SUFFICES ASSUME NEW i \in 1..Len(t), NEW j \in 1..Len(t), i < j
               PROVE  Ahead(now, t[i], t[j])
    BY DEF InOrder
  <2>1. CASE j = Len(s) + 1
    BY <1>1, <1>3, <2>1 DEF Packets
  <2>2. CASE j # Len(s) + 1
    BY <1>1, <1>3, <2>2 DEF InOrder
  <2> QED
    BY <2>1, <2>2
<1> QED
  BY <1>1, <1>2, <1>3 DEF t

LEMMA OnTail ==
  ASSUME NEW S, NEW s \in Seq(S), s # << >>
  PROVE  /\ Tail(s) \in Seq(S) /\ Head(s) \in S /\ Head(s) \in Packets(s)
         /\ Packets(Tail(s)) \subseteq Packets(s)
         /\ \A now : InOrder(now, s) =>
              InOrder(now, Tail(s)) /\ \A q \in Packets(Tail(s)) : Ahead(now, Head(s), q)
<1>1. Head(s) = s[1] /\ Len(s) \in Nat \ {0} /\ s[1] \in S
  BY LenProperties, ElementOfSeq
<1>2. /\ Tail(s) \in Seq(S) /\ Len(Tail(s)) = Len(s) - 1
      /\ \A i \in 1..Len(Tail(s)) : Tail(s)[i] = s[i + 1]
  BY HeadTailProperties
<1>3. Packets(Tail(s)) \subseteq Packets(s) /\ Head(s) \in Packets(s)
  BY <1>1, <1>2 DEF Packets
<1>4. ASSUME NEW now, InOrder(now, s)
      PROVE  InOrder(now, Tail(s)) /\ \A q \in Packets(Tail(s)) : Ahead(now, Head(s), q)
  <2>1. InOrder(now, Tail(s))
    BY <1>1, <1>2, <1>4 DEF InOrder
  <2>2. \A q \in Packets(Tail(s)) : Ahead(now, Head(s), q)
    BY <1>1, <1>2, <1>4 DEF InOrder, Packets
  <2> QED
    BY <2>1, <2>2
<1> QED
  BY <1>1, <1>2, <1>3, <1>4

LEMMA PacketTypes ==
  ASSUME NEW S, NEW s \in Seq(S)
  PROVE  Packets(s) \subseteq S
BY ElementOfSeq, LenProperties DEF Packets

LEMMA NoPackets == Packets(<< >>) = {} /\ \A now : InOrder(now, << >>)
BY DEF Packets, InOrder

-----------------------------------------------------------------------------
(* The invariant *)

Now == seq["ping"]
Busy(a, k) == call[a][k].doing \in {"query", "bulk"}

(* Whoever waits is waited for, as long as the Peer lives. *)
Calls ==
  \A a \in Agents, k \in Slot :
    /\ call[a][k].doing # "idle" => conn = "live" /\ (made = 1 => a = Agent[1])
    /\ Busy(a, k) => Pending(<<a, call[a][k].seq>>)
Asking ==
  \A a \in Agents, n \in SeqNo : Pending(<<a, n>>) => \E k \in Slot : Busy(a, k) /\ call[a][k].seq = n
OnePing == \A n \in SeqNo : Pending(<<"ping", n>>) => Age(Now, n) = 1

(* The pings that may still travel are the last so many. *)
Unanswered == retries + (IF Awaited = {} THEN 0 ELSE 1)

Fits(p) == p.seq = p.box[2] /\ (p.box[1] = "ping" <=> p.type = "ping")
Outgoing == \A p \in Packets(outbox) : Fits(p) /\ said[p.box] = "nothing"
Incoming ==
  \A p \in Packets(inbox) :
    /\ Fits(p) /\ said[p.box] = IF p.type = "empty" THEN "empty" ELSE "data"
    /\ p.type = "empty" => ~remoteHas

(* The remote's answer will find the request, and a call that expects it; unless the channel *)
(* was removed and added again, and its agent is another one now.                            *)
AgentPacket(p) ==
  p.box[1] \in Agents =>
    /\ status[p.box] # "unused"
    /\ \A k \in Slot : Busy(p.box[1], k) /\ call[p.box[1]][k].seq = p.seq =>
         p.type \in {"empty", call[p.box[1]][k].doing}
    /\ conn = "live" /\ made = 1 => p.box[1] = Agent[1] /\ Pending(p.box)
PingPacket(p) == p.box[1] = "ping" => Age(Now, p.seq) <= Unanswered
Travelling == \A p \in Packets(outbox) \cup Packets(inbox) : AgentPacket(p) /\ PingPacket(p)

Ordered ==
  /\ InOrder(Now, inbox) /\ InOrder(Now, outbox)
  /\ \A p \in Packets(inbox), q \in Packets(outbox) : Ahead(Now, p, q)

ReqInv == Types /\ Calls /\ Asking /\ OnePing /\ Outgoing /\ Incoming /\ Travelling /\ Ordered

LEMMA UnansweredType == Types => Unanswered \in Nat
<1> SUFFICES ASSUME Types PROVE Unanswered \in Nat
  OBVIOUS
<1>1. retries \in Nat
  BY Constants DEF Types
<1> DEFINE u == IF Awaited = {} THEN 0 ELSE 1
<1>2. u \in Nat
  OBVIOUS
<1> HIDE DEF u
<1>3. retries + u \in Nat
  BY <1>1, <1>2
<1> QED
  BY <1>3 DEF Unanswered, u

LEMMA RequestNames ==
  /\ \A a \in Agents, n \in SeqNo : <<a, n>> \in Request
  /\ \A n \in SeqNo : <<"ping", n>> \in Request
  /\ \A r \in Request : r = <<r[1], r[2]>> /\ r[2] \in SeqNo /\ (r[1] = "ping" \/ r[1] \in Agents)
BY DEF Request

LEMMA TypedAt ==
  ASSUME Types
  PROVE  /\ Now \in SeqNo /\ \A a \in Agents : seq[a] \in SeqNo
         /\ \A a \in Agents, k \in Slot : call[a][k].doing \in Doing /\ call[a][k].seq \in SeqNo
         /\ \A r \in Request : status[r] \in Status /\ said[r] \in {"nothing", "data", "empty"}
         /\ retries \in Nat /\ retries <= MaxRetries
<1>1. Now \in SeqNo /\ \A a \in Agents : seq[a] \in SeqNo
  BY DEF Types, Now
<1>2. \A a \in Agents, k \in Slot : call[a][k].doing \in Doing /\ call[a][k].seq \in SeqNo
  BY DEF Types
<1>3. \A r \in Request : status[r] \in Status /\ said[r] \in {"nothing", "data", "empty"}
  BY DEF Types
<1>4. retries \in Nat /\ retries <= MaxRetries
  BY Constants DEF Types
<1> QED
  BY <1>1, <1>2, <1>3, <1>4

LEMMA NextUnanswered ==
  ASSUME Types' PROVE Unanswered' \in Nat
<1> DEFINE n == retries'
<1>1. n \in Nat
  BY Constants DEF Types
<1> HIDE DEF n
<1>2. n \in Nat /\ n + 0 \in Nat /\ n + 1 \in Nat
  BY <1>1
<1> QED
  BY <1>2 DEF Unanswered, n

LEMMA PacketIs ==
  ASSUME Types, NEW p \in Packets(outbox) \cup Packets(inbox)
  PROVE  /\ p.box \in Request /\ p.seq \in SeqNo /\ p.type \in {"query", "bulk", "ping", "empty"}
         /\ p \in Packets(outbox) => p \in PacketOut
         /\ p \in Packets(inbox) => p \in PacketIn
<1>1. Packets(outbox) \subseteq PacketOut /\ Packets(inbox) \subseteq PacketIn
  BY PacketTypes DEF Types
<1>2. CASE p \in PacketOut
  BY <1>1, <1>2 DEF PacketOut
<1>3. CASE p \in PacketIn
  BY <1>1, <1>3 DEF PacketIn
<1> QED
  BY <1>1, <1>2, <1>3

LEMMA InitInv == Init => ReqInv
<1> SUFFICES ASSUME Init PROVE ReqInv
  OBVIOUS
<1>1. Types
  <2>1. Idle \in [doing : Doing, seq : SeqNo]
    BY Constants DEF Idle, Doing
  <2>2. << >> \in Seq(PacketOut) /\ << >> \in Seq(PacketIn)
    BY EmptySeq
  <2>3. retries = 0 /\ 0 \in 0..MaxRetries /\ 0 < MaxRetries
    BY Constants DEF Init
  <2>4. seq \in [Agents \cup {"ping"} -> SeqNo]
    BY Constants DEF Init
  <2>5. call \in [Agents -> [Slot -> [doing : Doing, seq : SeqNo]]]
    BY <2>1 DEF Init
  <2>6. status \in [Request -> Status] /\ said \in [Request -> {"nothing", "data", "empty"}]
    BY DEF Init, Status
  <2>7. outbox \in Seq(PacketOut) /\ inbox \in Seq(PacketIn)
    BY <2>2 DEF Init
  <2>8. /\ conn \in {"live", "closing", "closed"} /\ banned \in BanReason \cup {None}
        /\ made \in DOMAIN Agent
        /\ present \in BOOLEAN /\ remoteHas \in BOOLEAN /\ valid \in BOOLEAN /\ stalled \in BOOLEAN
    BY Constants DEF Init
  <2> QED
    BY <2>3, <2>4, <2>5, <2>6, <2>7, <2>8 DEF Types
<1>2. Calls /\ Asking /\ OnePing
  BY RequestNames DEF Init, Calls, Asking, OnePing, Busy, Pending, Idle
<1>3. Outgoing /\ Incoming /\ Travelling /\ Ordered
  BY NoPackets DEF Init, Outgoing, Incoming, Travelling, Ordered
<1> QED
  BY <1>1, <1>2, <1>3 DEF ReqInv

-----------------------------------------------------------------------------
(* Steps that send nothing *)

(* What travels may get lost or be read, waits may end, and calls with them. *)
LEMMA Settles ==
  ASSUME ReqInv, Types', seq'["ping"] = seq["ping"], said' = said, remoteHas' => remoteHas,
         Packets(outbox') \subseteq Packets(outbox), Packets(inbox') \subseteq Packets(inbox),
         InOrder(Now, outbox'), InOrder(Now, inbox'),
         made' = 1 => made = 1,
         \A r \in Request : status[r] # "unused" => status'[r] # "unused",
         \A n \in SeqNo : Pending(<<"ping", n>>)' => Pending(<<"ping", n>>),
         \A a \in Agents, k \in Slot : call'[a][k].doing # "idle" => conn' = "live" /\ call[a][k].doing # "idle",
         \A a \in Agents, k \in Slot : Busy(a, k)' => call'[a][k] = call[a][k],
         \A a \in Agents, k \in Slot : Busy(a, k)' => Pending(<<a, call[a][k].seq>>)',
         Asking',
         conn' = "live" => conn = "live",
         conn' = "live" /\ made' = 1 => \A p \in Packets(outbox') \cup Packets(inbox') :
           p.box[1] \in Agents => Pending(p.box)',
         \A p \in Packets(outbox') \cup Packets(inbox') : p.box[1] = "ping" => Unanswered <= Unanswered'
  PROVE  ReqInv'
<1> USE DEF ReqInv
<1>1. Calls'
  <2> SUFFICES ASSUME NEW a \in Agents, NEW k \in Slot
               PROVE  /\ call'[a][k].doing # "idle" => conn' = "live" /\ (made' = 1 => a = Agent[1])
                      /\ Busy(a, k)' => Pending(<<a, call[a][k].seq>>)'
    BY DEF Calls
  <2>1. call[a][k].doing # "idle" => conn = "live" /\ (made = 1 => a = Agent[1])
    BY DEF Calls
  <2>2. call'[a][k].doing # "idle" => conn' = "live" /\ call[a][k].doing # "idle"
    OBVIOUS
  <2>3. Busy(a, k)' => Pending(<<a, call[a][k].seq>>)'
    OBVIOUS
  <2> QED
    BY <2>1, <2>2, <2>3
<1>2. OnePing'
  BY DEF OnePing, Now
<1>3. Outgoing' /\ Incoming'
  BY DEF Outgoing, Incoming
<1>4. Travelling'
  <2> SUFFICES ASSUME NEW p \in Packets(outbox') \cup Packets(inbox')
               PROVE  AgentPacket(p)' /\ PingPacket(p)'
    BY DEF Travelling
  <2>1. AgentPacket(p) /\ PingPacket(p)
    BY DEF Travelling
  <2>2. p.box \in Request /\ p.seq \in SeqNo
    BY PacketIs
  <2>3. AgentPacket(p)'
    <3> SUFFICES ASSUME p.box[1] \in Agents
                 PROVE  /\ status'[p.box] # "unused"
                        /\ \A k \in Slot : Busy(p.box[1], k)' /\ call'[p.box[1]][k].seq = p.seq =>
                             p.type \in {"empty", call'[p.box[1]][k].doing}
                        /\ conn' = "live" /\ made' = 1 => p.box[1] = Agent[1] /\ Pending(p.box)'
      BY DEF AgentPacket
    <3>1. ASSUME NEW k \in Slot, Busy(p.box[1], k)', call'[p.box[1]][k].seq = p.seq
          PROVE  p.type \in {"empty", call'[p.box[1]][k].doing}
      BY <2>1, <3>1 DEF AgentPacket, Busy
    <3> QED
      BY <2>1, <2>2, <3>1 DEF AgentPacket
  <2>4. PingPacket(p)'
    <3> SUFFICES ASSUME p.box[1] = "ping" PROVE Age(Now, p.seq) <= Unanswered'
      BY DEF PingPacket, Now
    <3>1. Age(Now, p.seq) <= Unanswered /\ Unanswered <= Unanswered'
      BY <2>1 DEF PingPacket
    <3>2. Age(Now, p.seq) \in Nat
      BY <2>2, TypedAt, AgeType, Constants DEF Now
    <3>3. Unanswered \in Nat
      BY Constants DEF Types, Unanswered
    <3>4. Unanswered' \in Nat
      BY NextUnanswered
    <3> QED
      BY <3>1, <3>2, <3>3, <3>4
  <2> QED
    BY <2>3, <2>4
<1>5. Ordered'
  BY DEF Ordered, Now
<1> QED
  BY <1>1, <1>2, <1>3, <1>4, <1>5

(* Destroying the Peer ends all calls and waits but the ping's. *)
LEMMA DestroyEffect ==
  ASSUME ReqInv, NEW reason \in BanReason \cup {None}, Destroy(reason)
  PROVE  /\ conn' = "closing" /\ banned' = reason
         /\ status' \in [Request -> Status]
         /\ call' \in [Agents -> [Slot -> [doing : Doing, seq : SeqNo]]]
         /\ \A r \in Request : status[r] # "unused" => status'[r] # "unused"
         /\ \A r \in Request : status'[r] = status[r] \/ (status[r] = "asked" /\ status'[r] = "failed")
         /\ \A n \in SeqNo : Pending(<<"ping", n>>)' <=> Pending(<<"ping", n>>)
         /\ \A a \in Agents, k \in Slot : call'[a][k].doing = "idle" /\ ~Busy(a, k)'
         /\ \A a \in Agents, n \in SeqNo : ~Pending(<<a, n>>)'
         /\ Awaited' = Awaited
<1>1. conn' = "closing" /\ banned' = reason
      /\ status' = [r \in Request |-> IF Pending(r) /\ r[1] # "ping" THEN "failed" ELSE status[r]]
      /\ call' = [a \in Agents |-> [k \in Slot |-> Idle]]
  BY DEF Destroy
<1>2. status \in [Request -> Status] /\ Idle \in [doing : Doing, seq : SeqNo] /\ Idle.doing = "idle"
  BY Constants DEF ReqInv, Types, Idle, Doing
<1>3. status' \in [Request -> Status]
      /\ \A r \in Request : status'[r] = IF status[r] = "asked" /\ r[1] # "ping" THEN "failed" ELSE status[r]
  BY <1>1, <1>2 DEF Pending, Status
<1>4. call' \in [Agents -> [Slot -> [doing : Doing, seq : SeqNo]]]
      /\ \A a \in Agents, k \in Slot : call'[a][k].doing = "idle"
  BY <1>1, <1>2
<1>5. \A n \in SeqNo : Pending(<<"ping", n>>)' <=> Pending(<<"ping", n>>)
  BY <1>3, RequestNames DEF Pending
<1>6. \A a \in Agents, n \in SeqNo : ~Pending(<<a, n>>)'
  <2> SUFFICES ASSUME NEW a \in Agents, NEW n \in SeqNo PROVE status'[<<a, n>>] # "asked"
    BY DEF Pending
  <2> QED
    BY <1>3, RequestNames, Constants
<1>7. Awaited' = Awaited
  BY <1>5 DEF Awaited
<1> QED
  BY <1>1, <1>3, <1>4, <1>5, <1>6, <1>7 DEF Busy

(* A step that destroys the Peer, and may read a packet. *)
LEMMA DestroyStep ==
  ASSUME ReqInv, NEW reason \in BanReason \cup {None}, Destroy(reason),
         UNCHANGED <<world, retries, said, outbox>>, inbox' = inbox \/ (inbox # << >> /\ inbox' = Tail(inbox)),
         seq' \in [Agents \cup {"ping"} -> SeqNo], seq'["ping"] = seq["ping"]
  PROVE  ReqInv'
<1> USE DEF ReqInv
<1>1. UNCHANGED <<made, present, remoteHas, valid, stalled, retries, said, outbox>>
  BY DEF world
<1>2. /\ inbox' \in Seq(PacketIn) /\ Packets(inbox') \subseteq Packets(inbox) /\ InOrder(Now, inbox')
  <2>1. CASE inbox' = inbox
    BY <2>1 DEF Types, Ordered
  <2>2. CASE inbox # << >> /\ inbox' = Tail(inbox)
    BY <2>2, OnTail DEF Types, Ordered
  <2> QED
    BY <2>1, <2>2
<1>3. Types'
  BY <1>1, <1>2, DestroyEffect DEF Types
<1>4. Asking'
  BY DestroyEffect DEF Asking
<1>5. Unanswered' = Unanswered
  BY <1>1, DestroyEffect DEF Unanswered
<1>6. /\ conn' # "live"
      /\ \A r \in Request : status[r] # "unused" => status'[r] # "unused"
      /\ \A n \in SeqNo : Pending(<<"ping", n>>)' => Pending(<<"ping", n>>)
      /\ \A a \in Agents, k \in Slot : call'[a][k].doing = "idle" /\ ~Busy(a, k)'
  BY DestroyEffect
<1>7. Unanswered <= Unanswered' /\ InOrder(Now, outbox') /\ Packets(outbox') \subseteq Packets(outbox)
  BY <1>1, <1>5, Constants DEF Types, Unanswered, Ordered
<1> QED
  BY <1>1, <1>2, <1>3, <1>4, <1>6, <1>7, Settles

-----------------------------------------------------------------------------
(* Steps that send *)

LEMMA OnTransmit ==
  ASSUME ReqInv, NEW e \in PacketOut, Transmit(e)
  PROVE  /\ outbox' \in Seq(PacketOut) /\ Packets(outbox') \subseteq Packets(outbox) \cup {e}
         /\ \A now : InOrder(now, outbox) /\ (\A p \in Packets(outbox) : Ahead(now, p, e)) => InOrder(now, outbox')
<1>1. outbox \in Seq(PacketOut)
  BY DEF ReqInv, Types
<1>2. CASE outbox' = outbox
  BY <1>1, <1>2
<1>3. CASE outbox' = Append(outbox, e)
  BY <1>1, <1>3, OnAppend
<1> QED
  BY <1>2, <1>3 DEF Transmit

LEMMA PacketFits ==
  ASSUME ReqInv, NEW p \in Packets(outbox) \cup Packets(inbox)
  PROVE  /\ Fits(p) /\ AgentPacket(p) /\ PingPacket(p)
         /\ p.box \in Request /\ p.seq \in SeqNo /\ p.box = <<p.box[1], p.seq>>
         /\ p.box[1] = "ping" \/ p.box[1] \in Agents
<1>1. Fits(p) /\ AgentPacket(p) /\ PingPacket(p)
  BY DEF ReqInv, Outgoing, Incoming, Travelling
<1>2. p.box \in Request /\ p.seq \in SeqNo
  BY PacketIs DEF ReqInv
<1> QED
  BY <1>1, <1>2, RequestNames DEF Fits

LEMMA OtherBox ==
  ASSUME ReqInv, NEW p \in Packets(outbox) \cup Packets(inbox),
         NEW q \in Packets(outbox) \cup Packets(inbox), Ahead(Now, p, q)
  PROVE  p.box # q.box
<1> SUFFICES ASSUME p.box = q.box PROVE FALSE
  OBVIOUS
<1>1. p.seq = q.seq /\ p.seq \in SeqNo /\ Now \in SeqNo
  BY PacketFits, TypedAt DEF Fits, ReqInv
<1>2. Age(Now, p.seq) \in Int
  BY <1>1, AgeType, Constants
<1> QED
  BY <1>1, <1>2 DEF Ahead

LEMMA SendStep ==
  ASSUME ReqInv, NEW a \in Agents, NEW k \in Slot, NEW type \in {"query", "bulk"},
         conn = "live", ~Busy(a, k), made = 1 => a = Agent[1], Send(a, k, type)
  PROVE  ReqInv'
<1> DEFINE r == <<a, seq[a]>>
           e == [type |-> type, seq |-> seq[a], box |-> r]
<1> USE DEF ReqInv
<1>1. /\ status[r] = "unused" /\ status' = [status EXCEPT ![r] = "asked"]
      /\ said' = [said EXCEPT ![r] = "nothing"]
      /\ seq' = [seq EXCEPT ![a] = NextSeq(@)]
      /\ call' = [call EXCEPT ![a][k] = Waiting(type, seq[a])]
      /\ Transmit(e)
      /\ UNCHANGED <<conn, banned, retries, made, present, remoteHas, valid, stalled, inbox>>
  BY DEF Send, peer, world
<1>2. seq[a] \in SeqNo /\ r \in Request /\ r[1] = a /\ r[2] = seq[a] /\ a # "ping" /\ e \in PacketOut
  BY TypedAt, Constants, RequestNames DEF PacketOut
<1>3. e.type = type /\ e.seq = seq[a] /\ e.box = r
  OBVIOUS
<1> HIDE DEF r, e
<1>4. /\ status' \in [Request -> Status] /\ status'[r] = "asked"
      /\ \A q \in Request : q # r => status'[q] = status[q]
  BY <1>1, <1>2 DEF Types, Status
<1>5. /\ said' \in [Request -> {"nothing", "data", "empty"}] /\ said'[r] = "nothing"
      /\ \A q \in Request : q # r => said'[q] = said[q]
  BY <1>1, <1>2 DEF Types
<1>6. /\ call' \in [Agents -> [Slot -> [doing : Doing, seq : SeqNo]]]
      /\ call'[a][k] = [doing |-> type, seq |-> seq[a]]
      /\ \A b \in Agents, j \in Slot : b # a \/ j # k => call'[b][j] = call[b][j]
  BY <1>1, <1>2 DEF Types, Waiting, Doing
<1>7. seq' \in [Agents \cup {"ping"} -> SeqNo] /\ Now' = Now
  BY <1>1, <1>2, NextSeqType DEF Types, Now
<1>8. /\ outbox' \in Seq(PacketOut) /\ Packets(outbox') \subseteq Packets(outbox) \cup {e}
      /\ InOrder(Now, outbox) /\ (\A p \in Packets(outbox) : Ahead(Now, p, e)) => InOrder(Now, outbox')
  BY <1>1, <1>2, OnTransmit
<1>9. Types'
  BY <1>1, <1>4, <1>5, <1>6, <1>7, <1>8 DEF Types
<1>10. ASSUME NEW p \in Packets(outbox) \cup Packets(inbox)
       PROVE  p.box # r /\ Ahead(Now, p, e)
  <2>1. p.box # r
    BY <1>1, <1>2, PacketFits DEF AgentPacket
  <2> QED
    BY <1>2, <1>3, <2>1 DEF Ahead
<1>11. /\ \A n \in SeqNo : <<"ping", n>> # r /\ status'[<<"ping", n>>] = status[<<"ping", n>>]
       /\ Awaited' = Awaited /\ Unanswered' = Unanswered
  <2>1. \A n \in SeqNo : <<"ping", n>> # r /\ status'[<<"ping", n>>] = status[<<"ping", n>>]
    BY <1>2, <1>4, RequestNames
  <2>2. Awaited' = Awaited
    BY <2>1 DEF Awaited, Pending
  <2> QED
    BY <1>1, <2>1, <2>2 DEF Unanswered
<1>12. Calls'
  <2> SUFFICES ASSUME NEW b \in Agents, NEW j \in Slot
               PROVE  /\ call'[b][j].doing # "idle" => conn' = "live" /\ (made' = 1 => b = Agent[1])
                      /\ Busy(b, j)' => Pending(<<b, call[b][j].seq>>)'
    BY DEF Calls
  <2>1. CASE b = a /\ j = k
    <3>0. call'[b][j].seq = seq[a] /\ r = <<b, seq[a]>>
      BY <1>6, <2>1 DEF r
    <3>1. call'[b][j].seq = seq[a] /\ status'[<<b, call'[b][j].seq>>] = "asked"
      BY <1>4, <3>0
    <3> QED
      BY <1>1, <2>1, <3>1 DEF Pending
  <2>2. CASE ~(b = a /\ j = k)
    <3>1. call'[b][j] = call[b][j] /\ <<b, call[b][j].seq>> \in Request
      BY <1>6, <2>2, TypedAt, RequestNames
    <3>2. call[b][j].doing # "idle" => conn' = "live" /\ (made' = 1 => b = Agent[1])
      BY <1>1 DEF Calls
    <3>3. ASSUME Busy(b, j)' PROVE status'[<<b, call'[b][j].seq>>] = "asked"
      <4>1. status[<<b, call[b][j].seq>>] = "asked"
        BY <3>1, <3>3 DEF Calls, Busy, Pending
      <4> QED
        BY <1>1, <1>4, <3>1, <4>1
    <3> QED
      BY <3>1, <3>2, <3>3 DEF Pending
  <2> QED
    BY <2>1, <2>2
<1>13. Asking'
  <2> SUFFICES ASSUME NEW b \in Agents, NEW n \in SeqNo, status'[<<b, n>>] = "asked"
               PROVE  \E j \in Slot : call'[b][j].doing \in {"query", "bulk"} /\ call'[b][j].seq = n
    BY DEF Asking, Pending, Busy
  <2>1. CASE <<b, n>> = r
    BY <1>6, <2>1 DEF r
  <2>2. CASE <<b, n>> # r
    <3>1. PICK j \in Slot : Busy(b, j) /\ call[b][j].seq = n
      BY <1>4, <2>2, RequestNames DEF Asking, Pending
    <3>2. ~(b = a /\ j = k)
      BY <3>1
    <3> QED
      BY <1>6, <3>1, <3>2 DEF Busy
  <2> QED
    BY <2>1, <2>2
<1>14. OnePing'
  BY <1>7, <1>11 DEF OnePing, Pending
<1>15. Outgoing' /\ Incoming'
  <2>1. Outgoing'
    <3> SUFFICES ASSUME NEW p \in Packets(outbox') PROVE Fits(p) /\ said'[p.box] = "nothing"
      BY DEF Outgoing
    <3>1. CASE p \in Packets(outbox)
      BY <1>5, <1>10, <3>1, PacketFits DEF Outgoing
    <3>2. CASE p = e
      BY <1>2, <1>3, <1>5, <3>2 DEF Fits
    <3> QED
      BY <1>8, <3>1, <3>2
  <2>2. Incoming'
    <3> SUFFICES ASSUME NEW p \in Packets(inbox)
                 PROVE  /\ Fits(p) /\ said'[p.box] = IF p.type = "empty" THEN "empty" ELSE "data"
                        /\ p.type = "empty" => ~remoteHas'
      BY <1>1 DEF Incoming
    <3> QED
      BY <1>1, <1>5, <1>10, PacketFits DEF Incoming
  <2> QED
    BY <2>1, <2>2
<1>16. Travelling'
  <2> SUFFICES ASSUME NEW p \in Packets(outbox') \cup Packets(inbox')
               PROVE  AgentPacket(p)' /\ PingPacket(p)'
    BY DEF Travelling
  <2>1. CASE p \in Packets(outbox) \cup Packets(inbox)
    <3>1. AgentPacket(p)'
      <4> SUFFICES ASSUME p.box[1] \in Agents
                   PROVE  /\ status'[p.box] # "unused"
                          /\ \A j \in Slot : Busy(p.box[1], j)' /\ call'[p.box[1]][j].seq = p.seq =>
                               p.type \in {"empty", call'[p.box[1]][j].doing}
                          /\ conn' = "live" /\ made' = 1 => p.box[1] = Agent[1] /\ Pending(p.box)'
        BY DEF AgentPacket
      <4>1. status'[p.box] = status[p.box]
        BY <1>4, <1>10, <2>1, PacketFits
      <4>2. ASSUME NEW j \in Slot, Busy(p.box[1], j)', call'[p.box[1]][j].seq = p.seq
            PROVE  p.type \in {"empty", call'[p.box[1]][j].doing}
        <5>1. ~(p.box[1] = a /\ j = k)
          BY <1>6, <1>10, <2>1, <4>2, PacketFits DEF r
        <5>2. call'[p.box[1]][j] = call[p.box[1]][j]
          BY <1>6, <5>1
        <5> QED
          BY <2>1, <4>2, <5>2, PacketFits DEF AgentPacket, Busy
      <4> QED
        BY <1>1, <2>1, <4>1, <4>2, PacketFits DEF AgentPacket, Pending
    <3>2. PingPacket(p)'
      BY <1>7, <1>11, <2>1, PacketFits DEF PingPacket
    <3> QED
      BY <3>1, <3>2
  <2>2. CASE p = e
    <3>1. AgentPacket(p)'
      <4> SUFFICES ASSUME NEW j \in Slot, Busy(a, j)', call'[a][j].seq = seq[a]
                   PROVE  type = call'[a][j].doing
        BY <1>1, <1>2, <1>3, <1>4, <2>2 DEF AgentPacket, Pending
      <4>1. CASE j = k
        BY <1>6, <4>1
      <4>2. CASE j # k
        <5>1. call'[a][j] = call[a][j]
          BY <1>6, <4>2
        <5>2. Pending(<<a, seq[a]>>)
          BY <5>1 DEF Calls, Busy
        <5> QED
          BY <1>1, <5>2 DEF Pending, r
      <4> QED
        BY <4>1, <4>2
    <3>2. PingPacket(p)'
      BY <1>2, <1>3, <2>2 DEF PingPacket
    <3> QED
      BY <3>1, <3>2
  <2> QED
    BY <1>1, <1>8, <2>1, <2>2
<1>17. Ordered'
  BY <1>1, <1>7, <1>8, <1>10 DEF Ordered
<1> QED
  BY <1>9, <1>12, <1>13, <1>14, <1>15, <1>16, <1>17

LEMMA SendPingStep ==
  ASSUME ReqInv, SendPing
  PROVE  /\ ReqInv' /\ LET r == <<"ping", Now>>
                       IN  /\ r \in Request /\ status' = [status EXCEPT ![r] = "asked"]
                           /\ said' = [said EXCEPT ![r] = "nothing"] /\ status[r] # "asked"
<1> DEFINE r == <<"ping", Now>>
           e == [type |-> "ping", seq |-> Now, box |-> r]
<1> USE DEF ReqInv
<1>1. /\ conn = "live" /\ Awaited = {}
      /\ status' = [status EXCEPT ![r] = "asked"] /\ said' = [said EXCEPT ![r] = "nothing"]
      /\ seq' = [seq EXCEPT !["ping"] = NextSeq(@)]
      /\ Transmit(e)
      /\ UNCHANGED <<conn, banned, retries, made, present, remoteHas, valid, stalled, call, inbox>>
  BY DEF SendPing, MayPing, peer, world, Now
<1>2. Now \in SeqNo /\ r \in Request /\ r[1] = "ping" /\ r[2] = Now /\ e \in PacketOut
  BY TypedAt, RequestNames DEF PacketOut
<1>3. e.type = "ping" /\ e.seq = Now /\ e.box = r
  OBVIOUS
<1> HIDE DEF r, e
<1>4. /\ status' \in [Request -> Status] /\ status'[r] = "asked"
      /\ \A q \in Request : q # r => status'[q] = status[q]
  BY <1>1, <1>2 DEF Types, Status
<1>5. /\ said' \in [Request -> {"nothing", "data", "empty"}] /\ said'[r] = "nothing"
      /\ \A q \in Request : q # r => said'[q] = said[q]
  BY <1>1, <1>2 DEF Types
<1>6. seq' \in [Agents \cup {"ping"} -> SeqNo] /\ Now' = NextSeq(Now) /\ Now' \in SeqNo
  BY <1>1, <1>2, NextSeqType DEF Types, Now
<1>7. /\ outbox' \in Seq(PacketOut) /\ Packets(outbox') \subseteq Packets(outbox) \cup {e}
      /\ InOrder(Now', outbox) /\ (\A p \in Packets(outbox) : Ahead(Now', p, e)) => InOrder(Now', outbox')
  BY <1>1, <1>2, OnTransmit
<1>8. Types'
  BY <1>1, <1>4, <1>5, <1>6, <1>7 DEF Types
<1>9. \A b \in Agents, n \in SeqNo : /\ <<b, n>> \in Request /\ <<b, n>> # r
                                     /\ status'[<<b, n>>] = status[<<b, n>>]
  <2> SUFFICES ASSUME NEW b \in Agents, NEW n \in SeqNo
               PROVE  <<b, n>> \in Request /\ <<b, n>> # r /\ status'[<<b, n>>] = status[<<b, n>>]
    OBVIOUS
  <2>1. <<b, n>> \in Request /\ b # "ping"
    BY RequestNames, Constants
  <2>2. <<b, n>> # r
    BY <1>2, <2>1
  <2> QED
    BY <1>4, <2>1, <2>2
<1>10. \A n \in SeqNo : Pending(<<"ping", n>>)' <=> n = Now
  <2>1. \A n \in SeqNo : ~Pending(<<"ping", n>>)
    BY <1>1 DEF Awaited
  <2> SUFFICES ASSUME NEW n \in SeqNo PROVE status'[<<"ping", n>>] = "asked" <=> n = Now
    BY DEF Pending
  <2>2. CASE n = Now
    BY <1>4, <2>2 DEF r
  <2>3. CASE n # Now
    <3>1. <<"ping", n>> # r
      BY <2>3 DEF r
    <3> QED
      BY <1>4, <2>1, <2>3, <3>1, RequestNames DEF Pending
  <2> QED
    BY <2>2, <2>3
<1>11. Unanswered = retries /\ Unanswered' = retries + 1 /\ retries < 2^SeqWidth /\ retries \in Nat
  <2>1. Awaited' = {q \in {"ping"} \X SeqNo : status'[q] = "asked"}
    BY DEF Awaited, Pending
  <2>2. r \in {"ping"} \X SeqNo
    BY <1>2 DEF r
  <2>3. Awaited' # {}
    BY <1>4, <2>1, <2>2
  <2>4. retries < MaxRetries /\ retries \in Nat
    BY <1>1, TypedAt DEF Types
  <2> QED
    BY <1>1, <2>3, <2>4, Constants DEF Unanswered
<1>12. ASSUME NEW p \in Packets(outbox) \cup Packets(inbox), p.box[1] = "ping"
       PROVE  /\ Age(Now, p.seq) \in 1..retries /\ Age(Now', p.seq) = Age(Now, p.seq) + 1
              /\ p.seq # Now
  <2>1. Age(Now, p.seq) <= retries /\ p.seq \in SeqNo
    BY <1>11, <1>12, PacketFits DEF PingPacket
  <2>2. Age(Now, p.seq) \in 1..2^SeqWidth /\ (Age(Now, p.seq) = 2^SeqWidth <=> p.seq = Now)
    BY <1>2, <2>1, AgeType
  <2>3. Age(Now, p.seq) \in 1..retries /\ Age(Now, p.seq) < 2^SeqWidth
    BY <1>11, <2>1, <2>2, Constants
  <2> QED
    BY <1>2, <1>6, <2>1, <2>2, <2>3, AgeNext, Constants
<1>13. Age(Now', Now) = 1
  BY <1>2, <1>6, AgeNext
<1>14. ASSUME NEW p \in Packets(outbox) \cup Packets(inbox)
       PROVE  p.box # r /\ Ahead(Now', p, e)
  <2>1. CASE p.box[1] = "ping"
    <3>1. p.seq # Now /\ Age(Now', p.seq) > 1
      BY <1>11, <1>12, <2>1
    <3> QED
      BY <1>2, <1>3, <1>13, <2>1, <3>1, PacketFits DEF Ahead, r
  <2>2. CASE p.box[1] # "ping"
    BY <1>2, <1>3, <2>2 DEF Ahead
  <2> QED
    BY <2>1, <2>2
<1>15. ASSUME NEW p \in Packets(outbox) \cup Packets(inbox),
              NEW q \in Packets(outbox) \cup Packets(inbox), Ahead(Now, p, q)
       PROVE  Ahead(Now', p, q)
  <2>1. CASE p.box[1] = "ping" /\ q.box[1] = "ping"
    <3>1. Age(Now, p.seq) > Age(Now, q.seq)
      BY <1>15, <2>1 DEF Ahead
    <3>2. /\ Age(Now, p.seq) \in 1..retries /\ Age(Now', p.seq) = Age(Now, p.seq) + 1
          /\ Age(Now, q.seq) \in 1..retries /\ Age(Now', q.seq) = Age(Now, q.seq) + 1
      BY <1>12, <2>1
    <3>3. Age(Now', p.seq) > Age(Now', q.seq)
      BY <1>11, <3>1, <3>2
    <3> QED
      BY <2>1, <3>3 DEF Ahead
  <2>2. CASE ~(p.box[1] = "ping" /\ q.box[1] = "ping")
    BY <1>15, <2>2 DEF Ahead
  <2> QED
    BY <2>1, <2>2
<1>16. Calls'
  BY <1>1, <1>9, TypedAt DEF Calls, Busy, Pending
<1>17. Asking'
  BY <1>1, <1>9 DEF Asking, Busy, Pending
<1>18. OnePing'
  <2> SUFFICES ASSUME NEW n \in SeqNo, Pending(<<"ping", n>>)' PROVE Age(Now', n) = 1
    BY DEF OnePing
  <2> QED
    BY <1>10, <1>13
<1>19. Outgoing' /\ Incoming'
  <2>1. Outgoing'
    <3> SUFFICES ASSUME NEW p \in Packets(outbox') PROVE Fits(p) /\ said'[p.box] = "nothing"
      BY DEF Outgoing
    <3>1. CASE p \in Packets(outbox)
      BY <1>5, <1>14, <3>1, PacketFits DEF Outgoing
    <3>2. CASE p = e
      BY <1>2, <1>3, <1>5, <3>2 DEF Fits
    <3> QED
      BY <1>7, <3>1, <3>2
  <2>2. Incoming'
    <3> SUFFICES ASSUME NEW p \in Packets(inbox)
                 PROVE  /\ Fits(p) /\ said'[p.box] = IF p.type = "empty" THEN "empty" ELSE "data"
                        /\ p.type = "empty" => ~remoteHas'
      BY <1>1 DEF Incoming
    <3> QED
      BY <1>1, <1>5, <1>14, PacketFits DEF Incoming
  <2> QED
    BY <2>1, <2>2
<1>20. Travelling'
  <2> SUFFICES ASSUME NEW p \in Packets(outbox') \cup Packets(inbox')
               PROVE  AgentPacket(p)' /\ PingPacket(p)'
    BY DEF Travelling
  <2>1. CASE p \in Packets(outbox) \cup Packets(inbox)
    <3>1. status'[p.box] = status[p.box]
      BY <1>4, <1>14, <2>1, PacketFits
    <3>2. AgentPacket(p)'
      BY <1>1, <2>1, <3>1, PacketFits DEF AgentPacket, Pending, Busy
    <3>3. PingPacket(p)'
      <4> SUFFICES ASSUME p.box[1] = "ping" PROVE Age(Now', p.seq) <= Unanswered'
        BY DEF PingPacket
      <4>1. Age(Now, p.seq) \in 1..retries /\ Age(Now', p.seq) = Age(Now, p.seq) + 1
        BY <1>12, <2>1
      <4> QED
        BY <1>11, <4>1
    <3> QED
      BY <3>2, <3>3
  <2>2. CASE p = e
    <3>1. AgentPacket(p)'
      BY <1>2, <1>3, <2>2, Constants DEF AgentPacket
    <3>2. PingPacket(p)'
      <4>1. Age(Now', p.seq) <= Unanswered'
        BY <1>3, <1>11, <1>13, <2>2
      <4> QED
        BY <4>1 DEF PingPacket
    <3> QED
      BY <3>1, <3>2
  <2> QED
    BY <1>1, <1>7, <2>1, <2>2
<1>21. Ordered'
  <2>1. InOrder(Now', inbox') /\ InOrder(Now', outbox)
    BY <1>1, <1>15 DEF Ordered, InOrder, Packets
  <2>2. InOrder(Now', outbox')
    BY <1>7, <1>14, <2>1
  <2>3. \A p \in Packets(inbox'), q \in Packets(outbox') : Ahead(Now', p, q)
    BY <1>1, <1>7, <1>14, <1>15 DEF Ordered
  <2>4. InOrder(Now, inbox)' /\ InOrder(Now, outbox)'
    BY <2>1, <2>2 DEF InOrder, Ahead
  <2> QED
    BY <2>3, <2>4 DEF Ordered
<1>22. status[r] # "asked"
  BY <1>1, <1>2 DEF Awaited, Pending, r
<1> QED
  BY <1>1, <1>2, <1>8, <1>16, <1>17, <1>18, <1>19, <1>20, <1>21, <1>22 DEF r

(* The answer takes the place of the request. *)
LEMMA ReplyStep ==
  ASSUME ReqInv, Reply
  PROVE  /\ ReqInv' /\ UNCHANGED <<status, banned>>
         /\ LET r == Head(outbox).box
            IN  /\ r \in Request /\ said[r] = "nothing"
                /\ \E answer \in {"data", "empty"} : said' = [said EXCEPT ![r] = answer]
<1> DEFINE p == Head(outbox)
           type == IF p.type # "ping" /\ ~remoteHas THEN "empty" ELSE p.type
           e == [p EXCEPT !.type = type]
           answer == IF type = "empty" THEN "empty" ELSE "data"
<1> USE DEF ReqInv
<1>1. /\ outbox # << >> /\ inbox' = Append(inbox, e) /\ said' = [said EXCEPT ![p.box] = answer]
      /\ outbox' = Tail(outbox)
      /\ UNCHANGED <<conn, banned, retries, made, present, remoteHas, valid, stalled, seq, call, status>>
  BY DEF Reply, peer, world, table
<1>2. p \in PacketOut /\ p \in Packets(outbox) /\ outbox' \in Seq(PacketOut)
      /\ Packets(outbox') \subseteq Packets(outbox) /\ InOrder(Now, outbox')
      /\ \A q \in Packets(outbox') : Ahead(Now, p, q)
  BY <1>1, OnTail DEF Types, Ordered
<1>3. p.type \in {"query", "bulk", "ping"} /\ p.seq \in SeqNo /\ p.box \in Request
  BY <1>2 DEF PacketOut
<1>4. Fits(p) /\ AgentPacket(p) /\ PingPacket(p) /\ said[p.box] = "nothing"
  BY <1>2, PacketFits DEF Outgoing
<1>5. type \in {p.type, "empty"} /\ (type = "empty" => ~remoteHas /\ p.type # "ping")
  BY <1>3
<1>6. e.type = type /\ e.seq = p.seq /\ e.box = p.box /\ e \in PacketIn
  BY <1>2, <1>3, <1>5 DEF PacketOut, PacketIn
<1>7. answer = (IF type = "empty" THEN "empty" ELSE "data") /\ answer \in {"data", "empty"}
  OBVIOUS
<1> HIDE DEF p, type, e, answer
<1>8. /\ inbox' \in Seq(PacketIn) /\ Packets(inbox') = Packets(inbox) \cup {e}
      /\ InOrder(Now, inbox) /\ (\A q \in Packets(inbox) : Ahead(Now, q, e)) => InOrder(Now, inbox')
  BY <1>1, <1>6, OnAppend DEF Types
<1>9. /\ said' \in [Request -> {"nothing", "data", "empty"}] /\ said'[p.box] = answer
      /\ \A q \in Request : q # p.box => said'[q] = said[q]
  BY <1>1, <1>3, <1>7 DEF Types
<1>10. Types'
  BY <1>1, <1>2, <1>8, <1>9 DEF Types
<1>11. Calls' /\ Asking' /\ OnePing' /\ Unanswered' = Unanswered /\ Now' = Now
  <2>1. Calls'
    BY <1>1 DEF Calls, Busy, Pending
  <2>2. Asking'
    BY <1>1 DEF Asking, Busy, Pending
  <2>3. OnePing' /\ Now' = Now
    BY <1>1 DEF OnePing, Pending, Now
  <2>4. Unanswered' = Unanswered
    BY <1>1 DEF Unanswered, Awaited, Pending
  <2> QED
    BY <2>1, <2>2, <2>3, <2>4
<1>12. \A q \in Packets(inbox) : Ahead(Now, q, p) /\ q.box # p.box
  BY <1>2, OtherBox DEF Ordered
<1>13. \A q \in Packets(outbox') : q.box # p.box
  BY <1>2, OtherBox
<1>14. Outgoing'
  <2> SUFFICES ASSUME NEW q \in Packets(outbox') PROVE Fits(q) /\ said'[q.box] = "nothing"
    BY DEF Outgoing
  <2> QED
    BY <1>2, <1>9, <1>13, PacketFits DEF Outgoing
<1>15. Incoming'
  <2> SUFFICES ASSUME NEW q \in Packets(inbox')
               PROVE  /\ Fits(q) /\ said'[q.box] = IF q.type = "empty" THEN "empty" ELSE "data"
                      /\ q.type = "empty" => ~remoteHas
    BY <1>1 DEF Incoming
  <2>1. CASE q \in Packets(inbox)
    BY <1>9, <1>12, <2>1, PacketFits DEF Incoming
  <2>2. CASE q = e
    BY <1>4, <1>5, <1>6, <1>7, <1>9, <2>2 DEF Fits
  <2> QED
    BY <1>8, <2>1, <2>2
<1>16. Travelling'
  <2> SUFFICES ASSUME NEW q \in Packets(outbox') \cup Packets(inbox')
               PROVE  AgentPacket(q)' /\ PingPacket(q)'
    BY DEF Travelling
  <2>1. ASSUME AgentPacket(q), PingPacket(q) PROVE AgentPacket(q)' /\ PingPacket(q)'
    BY <1>1, <1>11, <2>1 DEF AgentPacket, PingPacket, Pending, Busy
  <2>2. CASE q \in Packets(outbox) \cup Packets(inbox)
    BY <2>1, <2>2, PacketFits
  <2>3. CASE q = e
    BY <1>4, <1>5, <1>6, <2>1, <2>3 DEF AgentPacket, PingPacket
  <2> QED
    BY <1>2, <1>8, <2>2, <2>3
<1>17. Ordered'
  <2>1. \A q \in Packets(inbox) : Ahead(Now, q, e)
    BY <1>6, <1>12 DEF Ahead
  <2>2. InOrder(Now, inbox')
    BY <1>8, <2>1 DEF Ordered
  <2>3. \A q \in Packets(outbox') : Ahead(Now, e, q)
    BY <1>2, <1>6 DEF Ahead
  <2>4. \A q \in Packets(inbox'), s \in Packets(outbox') : Ahead(Now, q, s)
    BY <1>2, <1>8, <2>3 DEF Ordered
  <2> QED
    BY <1>2, <1>11, <2>2, <2>4 DEF Ordered
<1> QED
  BY <1>1, <1>3, <1>4, <1>7, <1>10, <1>11, <1>14, <1>15, <1>16, <1>17 DEF p

-----------------------------------------------------------------------------
(* The other steps *)

(* Nothing becomes of the table. *)
LEMMA TableKept ==
  ASSUME ReqInv, Types', UNCHANGED <<table, conn, retries, said>>, remoteHas' => remoteHas,
         Packets(outbox') \subseteq Packets(outbox), Packets(inbox') \subseteq Packets(inbox),
         InOrder(Now, outbox'), InOrder(Now, inbox'), made' = 1 => made = 1
  PROVE  ReqInv'
<1>1. UNCHANGED <<seq, call, status, conn, retries, said>>
  BY DEF table
<1>2. /\ \A r \in Request : status[r] # "unused" => status'[r] # "unused"
      /\ \A n \in SeqNo : Pending(<<"ping", n>>)' => Pending(<<"ping", n>>)
      /\ \A a \in Agents, k \in Slot : Busy(a, k)' => call'[a][k] = call[a][k]
  BY <1>1 DEF Pending
<1>3. \A a \in Agents, k \in Slot : call'[a][k].doing # "idle" => conn' = "live" /\ call[a][k].doing # "idle"
  BY <1>1 DEF ReqInv, Calls
<1>4. \A a \in Agents, k \in Slot : Busy(a, k)' => Pending(<<a, call[a][k].seq>>)'
  BY <1>1 DEF ReqInv, Calls, Busy, Pending
<1>5. Asking'
  BY <1>1 DEF ReqInv, Asking, Busy, Pending
<1>6. ASSUME conn' = "live", made' = 1, NEW p \in Packets(outbox') \cup Packets(inbox'), p.box[1] \in Agents
      PROVE  Pending(p.box)'
  BY <1>1, <1>6, PacketFits DEF AgentPacket, Pending
<1>7. Unanswered' = Unanswered
  BY <1>1 DEF Unanswered, Awaited, Pending
<1>8. Unanswered <= Unanswered'
  <2>1. Unanswered' = Unanswered /\ Unanswered \in Nat
    BY <1>7, UnansweredType DEF ReqInv
  <2> QED
    BY <2>1
<1> QED
  BY <1>1, <1>2, <1>3, <1>4, <1>5, <1>6, <1>8, Settles

LEMMA OnReceive ==
  ASSUME ReqInv, Receive
  PROVE  /\ inbox # << >> /\ inbox' = Tail(inbox)
         /\ UNCHANGED <<made, present, remoteHas, valid, stalled, world, seq, said, outbox>>
         /\ inbox' \in Seq(PacketIn) /\ Packets(inbox') \subseteq Packets(inbox)
         /\ Packets(outbox') \subseteq Packets(outbox) /\ InOrder(Now, inbox') /\ InOrder(Now, outbox')
         /\ Packet \in Packets(inbox) /\ Packet \in PacketIn
         /\ \A q \in Packets(outbox') \cup Packets(inbox') : Ahead(Now, Packet, q) /\ q.box # Packet.box
<1>1. /\ inbox # << >> /\ inbox' = Tail(inbox)
      /\ UNCHANGED <<made, present, remoteHas, valid, stalled, world, seq, said, outbox>>
  BY DEF Receive, world
<1>2. /\ inbox' \in Seq(PacketIn) /\ Packet \in PacketIn /\ Packet \in Packets(inbox)
      /\ Packets(inbox') \subseteq Packets(inbox) /\ InOrder(Now, inbox')
      /\ \A q \in Packets(inbox') : Ahead(Now, Packet, q)
  BY <1>1, OnTail DEF ReqInv, Types, Ordered, Packet
<1>3. InOrder(Now, outbox') /\ \A q \in Packets(outbox') : Ahead(Now, Packet, q)
  BY <1>1, <1>2 DEF ReqInv, Ordered
<1>4. \A q \in Packets(outbox') \cup Packets(inbox') : q.box # Packet.box
  BY <1>1, <1>2, <1>3, OtherBox
<1> QED
  BY <1>1, <1>2, <1>3, <1>4

LEMMA IgnoreStep ==
  ASSUME ReqInv, Receive, UNCHANGED <<conn, banned, retries, call, status>>
  PROVE  ReqInv'
<1>1. Types'
  BY OnReceive DEF ReqInv, Types
<1> QED
  BY <1>1, OnReceive, TableKept DEF table

LEMMA FinishStep ==
  ASSUME ReqInv, NEW a \in Agents, NEW k \in Slot, ~Busy(a, k),
         call' = [call EXCEPT ![a][k] = Idle],
         seq' \in [Agents \cup {"ping"} -> SeqNo], Now' = Now,
         UNCHANGED <<world, peer, status, said, outbox, inbox>>
  PROVE  ReqInv'
<1> USE DEF ReqInv
<1>1. UNCHANGED <<made, present, remoteHas, valid, stalled, conn, banned, retries, status, said, outbox, inbox>>
  BY DEF world, peer
<1>2. Idle \in [doing : Doing, seq : SeqNo] /\ Idle.doing = "idle"
  BY Constants DEF Idle, Doing
<1>3. /\ call' \in [Agents -> [Slot -> [doing : Doing, seq : SeqNo]]]
      /\ call'[a][k].doing = "idle"
      /\ \A b \in Agents, j \in Slot : b # a \/ j # k => call'[b][j] = call[b][j]
  BY <1>2 DEF Types
<1>4. Types'
  BY <1>1, <1>3 DEF Types
<1>5. /\ \A b \in Agents, j \in Slot : call'[b][j].doing # "idle" => conn' = "live" /\ call[b][j].doing # "idle"
      /\ \A b \in Agents, j \in Slot : Busy(b, j)' => call'[b][j] = call[b][j]
      /\ \A b \in Agents, j \in Slot : Busy(b, j)' => Pending(<<b, call[b][j].seq>>)'
  <2> SUFFICES ASSUME NEW b \in Agents, NEW j \in Slot, call'[b][j].doing # "idle"
               PROVE  /\ conn' = "live" /\ call'[b][j] = call[b][j]
                      /\ Busy(b, j)' => Pending(<<b, call[b][j].seq>>)'
    BY DEF Busy
  <2>1. call'[b][j] = call[b][j]
    BY <1>3
  <2> QED
    BY <1>1, <2>1 DEF Calls, Busy, Pending
<1>6. Asking'
  <2> SUFFICES ASSUME NEW b \in Agents, NEW n \in SeqNo, Pending(<<b, n>>)
               PROVE  \E j \in Slot : call'[b][j].doing \in {"query", "bulk"} /\ call'[b][j].seq = n
    BY <1>1 DEF Asking, Pending, Busy
  <2>1. PICK j \in Slot : Busy(b, j) /\ call[b][j].seq = n
    BY DEF Asking
  <2> QED
    BY <1>3, <2>1 DEF Busy
<1>7. ASSUME conn' = "live", made' = 1, NEW p \in Packets(outbox') \cup Packets(inbox'), p.box[1] \in Agents
      PROVE  Pending(p.box)'
  BY <1>1, <1>7, PacketFits DEF AgentPacket, Pending
<1>8. Unanswered' = Unanswered
  BY <1>1 DEF Unanswered, Awaited, Pending
<1>9. Unanswered <= Unanswered'
  <2>1. Unanswered' = Unanswered /\ Unanswered \in Nat
    BY <1>8, UnansweredType
  <2> QED
    BY <2>1
<1> QED
  BY <1>1, <1>4, <1>5, <1>6, <1>7, <1>9, Settles DEF Ordered, Pending, Now

(* The answer to a pending request of the present agent. *)
LEMMA ResolveStep ==
  ASSUME ReqInv, Receive, present, Packet.type # "ping",
         Pending(<<Current, Packet.seq>>),
         NEW outcome \in {"answered", "empty"}, NEW next \in {Idle, Paged},
         Resolve(<<Current, Packet.seq>>, outcome, next), UNCHANGED <<conn, banned, retries>>
  PROVE  /\ ReqInv'
         /\ <<Current, Packet.seq>> \in Request
         /\ status' = [status EXCEPT ![<<Current, Packet.seq>>] = outcome]
<1> DEFINE a == Current
           n == Packet.seq
           r == <<a, n>>
<1> USE DEF ReqInv
<1>1. a \in Agents /\ n \in SeqNo /\ r \in Request /\ a = Agent[made] /\ r[1] = a /\ r[2] = n
  BY OnReceive, PacketIs, RequestNames DEF Current, Agents, Types
<1>2. /\ inbox # << >> /\ inbox' = Tail(inbox)
      /\ UNCHANGED <<made, present, remoteHas, valid, stalled, seq, said, outbox>>
      /\ inbox' \in Seq(PacketIn) /\ Packets(inbox') \subseteq Packets(inbox)
      /\ Packets(outbox') \subseteq Packets(outbox) /\ InOrder(Now, inbox') /\ InOrder(Now, outbox')
      /\ Packet \in Packets(inbox)
      /\ \A q \in Packets(outbox') \cup Packets(inbox') : q.box # Packet.box
  BY OnReceive
<1>3. /\ status' = [status EXCEPT ![r] = outcome]
      /\ call' = [call EXCEPT ![a] = [k \in Slot |->
                    IF @[k].doing \in {"query", "bulk"} /\ @[k].seq = n THEN next ELSE @[k]]]
  BY DEF Resolve
<1>4. /\ Idle \in [doing : Doing, seq : SeqNo] /\ Paged \in [doing : Doing, seq : SeqNo]
      /\ next.doing \notin {"query", "bulk"}
  BY Constants DEF Idle, Paged, Doing
<1> HIDE DEF a, n, r
<1>5. /\ status' \in [Request -> Status] /\ status'[r] # "asked" /\ status'[r] # "unused"
      /\ \A q \in Request : q # r => status'[q] = status[q]
  BY <1>1, <1>3 DEF Types, Status
<1>6. /\ call' \in [Agents -> [Slot -> [doing : Doing, seq : SeqNo]]]
      /\ \A b \in Agents : b # a => call'[b] = call[b]
      /\ \A k \in Slot : call'[a][k] = IF Busy(a, k) /\ call[a][k].seq = n THEN next ELSE call[a][k]
  <2>1. \A k \in Slot : call[a][k] \in [doing : Doing, seq : SeqNo]
    BY <1>1 DEF Types
  <2> QED
    BY <1>1, <1>3, <1>4, <2>1 DEF Types, Busy
<1>7. Types'
  BY <1>2, <1>5, <1>6 DEF Types
<1>8. PICK w \in Slot : Busy(a, w) /\ call[a][w].seq = n
  BY <1>1 DEF Asking, a, n
<1>9. conn = "live"
  BY <1>1, <1>8 DEF Calls, Busy
<1>10. ASSUME NEW b \in Agents, NEW j \in Slot
       PROVE  \/ b = a /\ Busy(b, j) /\ call[b][j].seq = n /\ call'[b][j] = next
              \/ <<b, call[b][j].seq>> # r /\ call'[b][j] = call[b][j]
              \/ ~Busy(b, j) /\ call'[b][j] = call[b][j]
  BY <1>6 DEF r
<1>11. /\ \A b \in Agents, j \in Slot : call'[b][j].doing # "idle" => conn' = "live" /\ call[b][j].doing # "idle"
       /\ \A b \in Agents, j \in Slot : Busy(b, j)' => call'[b][j] = call[b][j]
  BY <1>4, <1>9, <1>10 DEF Busy
<1>12. \A b \in Agents, j \in Slot : Busy(b, j)' => Pending(<<b, call[b][j].seq>>)'
  <2> SUFFICES ASSUME NEW b \in Agents, NEW j \in Slot, Busy(b, j)'
               PROVE  status'[<<b, call'[b][j].seq>>] = "asked"
    BY DEF Pending
  <2>1. <<b, call[b][j].seq>> # r /\ call'[b][j] = call[b][j] /\ Busy(b, j)
    BY <1>4, <1>10 DEF Busy
  <2>2. Pending(<<b, call[b][j].seq>>) /\ <<b, call[b][j].seq>> \in Request
    BY <2>1, TypedAt, RequestNames DEF Calls
  <2> QED
    BY <1>5, <2>1, <2>2 DEF Pending
<1>13. Asking'
  <2> SUFFICES ASSUME NEW b \in Agents, NEW m \in SeqNo, status'[<<b, m>>] = "asked"
               PROVE  \E j \in Slot : call'[b][j].doing \in {"query", "bulk"} /\ call'[b][j].seq = m
    BY DEF Asking, Pending, Busy
  <2>1. <<b, m>> # r /\ status[<<b, m>>] = "asked"
    BY <1>5, RequestNames
  <2>2. PICK j \in Slot : Busy(b, j) /\ call[b][j].seq = m
    BY <2>1 DEF Asking, Pending
  <2>3. call'[b][j] = call[b][j]
    BY <1>6, <2>1, <2>2 DEF r
  <2> QED
    BY <2>2, <2>3 DEF Busy
<1>14. \A m \in SeqNo : Pending(<<"ping", m>>)' <=> Pending(<<"ping", m>>)
  <2> SUFFICES ASSUME NEW m \in SeqNo PROVE status'[<<"ping", m>>] = status[<<"ping", m>>]
    BY DEF Pending
  <2>1. <<"ping", m>> # r
    BY <1>1, Constants DEF r
  <2> QED
    BY <1>5, <2>1, RequestNames
<1>15. ASSUME conn' = "live", made' = 1, NEW p \in Packets(outbox') \cup Packets(inbox'), p.box[1] \in Agents
       PROVE  Pending(p.box)'
  <2>1. Packet.box = <<Packet.box[1], n>> /\ Packet.box[1] \in Agents /\ AgentPacket(Packet)
    BY <1>2, PacketFits DEF n, Fits
  <2>2. Packet.box = r
    BY <1>1, <1>2, <1>9, <1>15, <2>1 DEF AgentPacket, r
  <2>3. p.box # r /\ p.box \in Request /\ Pending(p.box)
    BY <1>2, <1>9, <1>15, <2>2, PacketFits DEF AgentPacket
  <2> QED
    BY <1>5, <2>3 DEF Pending
<1>16. Unanswered <= Unanswered'
  <2>1. Awaited' = Awaited
    BY <1>14 DEF Awaited
  <2>2. Unanswered' = Unanswered
    BY <2>1 DEF Unanswered
  <2> QED
    BY <2>2, Constants DEF Types, Unanswered
<1>17. ReqInv'
  BY <1>2, <1>5, <1>7, <1>11, <1>12, <1>13, <1>14, <1>15, <1>16, Settles
<1> QED
  BY <1>1, <1>3, <1>17 DEF r, a, n

LEMMA PongStep ==
  ASSUME ReqInv, OnPong
  PROVE  /\ ReqInv' /\ UNCHANGED <<banned, made, remoteHas, valid, said>>
         /\ \/ UNCHANGED status
            \/ LET r == <<"ping", Packet.seq>>
               IN  /\ r \in Request /\ Pending(r) /\ said[r] = "data"
                   /\ status' = [status EXCEPT ![r] = "answered"]
<1> DEFINE n == Packet.seq
           r == <<"ping", n>>
<1> USE DEF ReqInv
<1>1. /\ Receive /\ Packet.type = "ping"
      /\ status' = [q \in Request |-> IF q \in PongFor(n) THEN "answered" ELSE status[q]]
      /\ retries' = IF PongFor(n) # {} THEN 0 ELSE retries
      /\ UNCHANGED <<conn, banned, call>>
  BY DEF OnPong
<1>2. /\ n \in SeqNo /\ r \in Request /\ Packet.box = r /\ said[r] = "data"
  <2>1. Packet \in Packets(inbox)
    BY <1>1, OnReceive
  <2>2. Packet.box[1] = "ping" /\ said[Packet.box] = "data"
    BY <1>1, <2>1 DEF Fits, Incoming
  <2> QED
    BY <2>1, <2>2, PacketFits
<1>3. CASE ~Pending(r)
  <2>1. PongFor(n) = {}
    BY <1>3 DEF PongFor
  <2>2. UNCHANGED <<status, retries>>
    BY <1>1, <2>1 DEF Types
  <2>3. ReqInv'
    BY <1>1, <2>2, IgnoreStep
  <2> QED
    BY <1>1, <2>2, <2>3, OnReceive
<1>4. CASE Pending(r)
  <2>1. PongFor(n) = {r}
    BY <1>4 DEF PongFor
  <2> HIDE DEF n, r
  <2>2. retries' = 0 /\ status' = [status EXCEPT ![r] = "answered"]
    BY <1>1, <1>2, <2>1 DEF Types
  <2>3. /\ status' \in [Request -> Status] /\ status'[r] = "answered"
        /\ \A q \in Request : q # r => status'[q] = status[q]
    BY <1>2, <2>2 DEF Types, Status
  <2>4. Types'
    <3>1. retries' \in 0..MaxRetries /\ retries' < MaxRetries
      BY <2>2, Constants
    <3> QED
      BY <1>1, <2>3, <3>1, OnReceive DEF Types
  <2>5. /\ \A q \in Request : status[q] # "unused" => status'[q] # "unused"
        /\ \A m \in SeqNo : Pending(<<"ping", m>>)' => Pending(<<"ping", m>>)
        /\ \A b \in Agents, m \in SeqNo : Pending(<<b, m>>)' <=> Pending(<<b, m>>)
    <3>1. \A q \in Request : status[q] # "unused" => status'[q] # "unused"
      BY <2>3
    <3>2. \A m \in SeqNo : Pending(<<"ping", m>>)' => Pending(<<"ping", m>>)
      BY <2>3, RequestNames DEF Pending
    <3>3. \A b \in Agents, m \in SeqNo : <<b, m>> # r /\ <<b, m>> \in Request
      BY Constants, RequestNames DEF r
    <3>4. \A b \in Agents, m \in SeqNo : Pending(<<b, m>>)' <=> Pending(<<b, m>>)
      BY <2>3, <3>3 DEF Pending
    <3> QED
      BY <3>1, <3>2, <3>4
  <2>6. /\ \A b \in Agents, j \in Slot : call'[b][j].doing # "idle" => conn' = "live" /\ call[b][j].doing # "idle"
        /\ \A b \in Agents, j \in Slot : Busy(b, j)' => call'[b][j] = call[b][j]
    BY <1>1 DEF Calls
  <2>7. \A b \in Agents, j \in Slot : Busy(b, j)' => Pending(<<b, call[b][j].seq>>)'
    <3> SUFFICES ASSUME NEW b \in Agents, NEW j \in Slot, Busy(b, j)'
                 PROVE  status'[<<b, call'[b][j].seq>>] = "asked"
      BY DEF Pending
    <3>1. call'[b][j] = call[b][j] /\ Busy(b, j)
      BY <1>1 DEF Busy
    <3>2. Pending(<<b, call[b][j].seq>>) /\ <<b, call[b][j].seq>> \in Request /\ <<b, call[b][j].seq>> # r
      BY <3>1, TypedAt, RequestNames, Constants DEF Calls, r
    <3> QED
      BY <2>3, <3>1, <3>2 DEF Pending
  <2>8. Asking'
    BY <1>1, <2>5 DEF Asking, Busy
  <2>9. ASSUME conn' = "live", made' = 1, NEW p \in Packets(outbox') \cup Packets(inbox'), p.box[1] \in Agents
        PROVE  Pending(p.box)'
    <3>1. p.box = <<p.box[1], p.seq>> /\ p.seq \in SeqNo /\ Pending(p.box)
      BY <1>1, <2>9, OnReceive, PacketFits DEF AgentPacket
    <3> QED
      BY <2>5, <2>9, <3>1
  <2>10. ASSUME NEW p \in Packets(outbox') \cup Packets(inbox') PROVE p.box[1] # "ping"
    <3> SUFFICES ASSUME p.box[1] = "ping" PROVE FALSE
      OBVIOUS
    <3>1. Ahead(Now, Packet, p) /\ Packet.box[1] = "ping" /\ p.seq \in SeqNo
      BY <1>1, <1>2, OnReceive, PacketFits DEF r
    <3>2. Age(Now, n) > Age(Now, p.seq)
      BY <3>1 DEF Ahead, n
    <3>3. Age(Now, n) = 1
      BY <1>2, <1>4 DEF OnePing, r
    <3>4. Age(Now, p.seq) \in 1..2^SeqWidth
      BY <3>1, TypedAt, AgeType
    <3> QED
      BY <3>2, <3>3, <3>4, Constants
  <2>11. Receive
    BY <1>1
  <2>12. ReqInv'
    BY <1>1, <2>4, <2>5, <2>6, <2>7, <2>8, <2>9, <2>10, <2>11, OnReceive, Settles
  <2> QED
    BY <1>2, <1>4, <2>2, <2>11, <2>12, <1>1, OnReceive DEF r, n
<1> QED
  BY <1>3, <1>4

LEMMA PingTimeoutStep ==
  ASSUME ReqInv, PingTimeout
  PROVE  /\ ReqInv' /\ UNCHANGED <<banned, world, said>>
         /\ \E R \in SUBSET {r \in Request : status[r] = "asked"} :
              status' = [r \in Request |-> IF r \in R THEN "failed" ELSE status[r]]
<1> USE DEF ReqInv
<1>1. /\ conn = "live" /\ Awaited # {} /\ retries' = retries + 1
      /\ UNCHANGED <<made, present, remoteHas, valid, stalled, world, banned, seq, said, outbox, inbox>>
  BY DEF PingTimeout, world
<1>2. retries \in Nat /\ retries < MaxRetries /\ MaxRetries \in Nat
  BY <1>1, TypedAt, Constants DEF Types
<1>3. \/ /\ conn' = "closing" /\ call' = [a \in Agents |-> [k \in Slot |-> Idle]]
         /\ status' = [r \in Request |-> IF Pending(r) THEN "failed" ELSE status[r]]
      \/ /\ retries + 1 < MaxRetries /\ UNCHANGED <<conn, call>>
         /\ status' = [r \in Request |-> IF r \in Awaited THEN "failed" ELSE status[r]]
  BY <1>2 DEF PingTimeout, TooMany
<1>4. Awaited \subseteq {r \in Request : Pending(r)}
  BY RequestNames DEF Awaited
<1>5. /\ status' \in [Request -> Status]
      /\ \A r \in Request : status'[r] = status[r] \/ (status[r] = "asked" /\ status'[r] = "failed")
      /\ \A n \in SeqNo : status'[<<"ping", n>>] # "asked"
  <2>1. \A n \in SeqNo : <<"ping", n>> \in Request /\ (Pending(<<"ping", n>>) => <<"ping", n>> \in Awaited)
    BY RequestNames DEF Awaited
  <2> QED
    BY <1>3, <1>4, <2>1 DEF Types, Status, Pending
<1>6. \E R \in SUBSET {r \in Request : status[r] = "asked"} :
        status' = [r \in Request |-> IF r \in R THEN "failed" ELSE status[r]]
  BY <1>3, <1>4 DEF Pending
<1>7. Awaited' = {}
  BY <1>5 DEF Awaited, Pending
<1>8. Unanswered' = Unanswered
  BY <1>1, <1>2, <1>7 DEF Unanswered
<1>9. Unanswered <= Unanswered'
  BY <1>2, <1>8 DEF Unanswered
<1>10. /\ \A r \in Request : status[r] # "unused" => status'[r] # "unused"
       /\ \A n \in SeqNo : Pending(<<"ping", n>>)' => Pending(<<"ping", n>>)
  BY <1>5 DEF Pending
<1>11. CASE conn' = "closing" /\ call' = [a \in Agents |-> [k \in Slot |-> Idle]]
            /\ status' = [r \in Request |-> IF Pending(r) THEN "failed" ELSE status[r]]
  <2>1. Idle \in [doing : Doing, seq : SeqNo] /\ Idle.doing = "idle"
    BY Constants DEF Idle, Doing
  <2>2. call' \in [Agents -> [Slot -> [doing : Doing, seq : SeqNo]]]
        /\ \A a \in Agents, k \in Slot : call'[a][k].doing = "idle" /\ ~Busy(a, k)'
    BY <1>11, <2>1 DEF Busy
  <2>3. retries' \in 0..MaxRetries
    BY <1>1, <1>2
  <2>4. Types'
    BY <1>1, <1>5, <1>11, <2>2, <2>3 DEF Types
  <2>5. \A a \in Agents, n \in SeqNo : status'[<<a, n>>] # "asked"
    BY <1>11, RequestNames DEF Pending
  <2>6. Asking'
    BY <2>5 DEF Asking, Pending
  <2>7. conn' # "live"
    BY <1>11
  <2>8. ReqInv'
    BY <1>1, <1>9, <1>10, <2>2, <2>4, <2>6, <2>7, Settles DEF Ordered
  <2> QED
    BY <1>1, <1>6, <2>8
<1>12. CASE retries + 1 < MaxRetries /\ UNCHANGED <<conn, call>>
            /\ status' = [r \in Request |-> IF r \in Awaited THEN "failed" ELSE status[r]]
  <2>1. retries' \in 0..MaxRetries /\ retries' < MaxRetries
    BY <1>1, <1>2, <1>12
  <2>2. Types'
    BY <1>1, <1>5, <1>12, <2>1 DEF Types
  <2>3. \A a \in Agents, n \in SeqNo : status'[<<a, n>>] = status[<<a, n>>]
    <3> SUFFICES ASSUME NEW a \in Agents, NEW n \in SeqNo PROVE status'[<<a, n>>] = status[<<a, n>>]
      OBVIOUS
    <3>1. <<a, n>> \notin Awaited /\ <<a, n>> \in Request
      BY RequestNames, Constants DEF Awaited
    <3> QED
      BY <1>12, <3>1
  <2>4. Asking'
    BY <1>12, <2>3 DEF Asking, Busy, Pending
  <2>5. /\ \A b \in Agents, j \in Slot : call'[b][j].doing # "idle" => conn' = "live" /\ call[b][j].doing # "idle"
        /\ \A b \in Agents, j \in Slot : Busy(b, j)' => call'[b][j] = call[b][j]
        /\ \A b \in Agents, j \in Slot : Busy(b, j)' => Pending(<<b, call[b][j].seq>>)'
    <3> SUFFICES ASSUME NEW b \in Agents, NEW j \in Slot
                 PROVE  Busy(b, j)' => status'[<<b, call'[b][j].seq>>] = "asked"
      BY <1>1, <1>12 DEF Pending
    <3>1. Busy(b, j) => status[<<b, call[b][j].seq>>] = "asked"
      BY DEF Calls, Pending
    <3> QED
      BY <1>12, <2>3, <3>1, TypedAt DEF Busy
  <2>6. ASSUME conn' = "live", made' = 1, NEW p \in Packets(outbox') \cup Packets(inbox'), p.box[1] \in Agents
        PROVE  Pending(p.box)'
    <3>1. p.box = <<p.box[1], p.seq>> /\ p.seq \in SeqNo /\ Pending(p.box)
      BY <1>1, <2>6, PacketFits DEF AgentPacket
    <3> QED
      BY <2>3, <2>6, <3>1 DEF Pending
  <2>7. ReqInv'
    BY <1>1, <1>9, <1>10, <1>12, <2>2, <2>4, <2>5, <2>6, Settles DEF Ordered
  <2> QED
    BY <1>1, <1>6, <2>7
<1> QED
  BY <1>3, <1>11, <1>12

LEMMA CloseStep ==
  ASSUME ReqInv, Close
  PROVE  /\ ReqInv' /\ UNCHANGED <<banned, world, said>>
         /\ \E R \in SUBSET {r \in Request : status[r] = "asked"} :
              status' = [r \in Request |-> IF r \in R THEN "failed" ELSE status[r]]
<1> USE DEF ReqInv
<1>1. /\ conn = "closing" /\ conn' = "closed" /\ outbox' = << >> /\ inbox' = << >>
      /\ status' = [r \in Request |-> IF Pending(r) THEN "failed" ELSE status[r]]
      /\ UNCHANGED <<made, present, remoteHas, valid, stalled, world, banned, retries, seq, call, said>>
  BY DEF Close, world
<1>2. \E R \in SUBSET {r \in Request : status[r] = "asked"} :
        status' = [r \in Request |-> IF r \in R THEN "failed" ELSE status[r]]
  <2> DEFINE R == {r \in Request : status[r] = "asked"}
  <2>1. status' = [r \in Request |-> IF r \in R THEN "failed" ELSE status[r]]
    BY <1>1 DEF Pending
  <2> QED
    BY <2>1
<1>3. status' \in [Request -> Status] /\ \A r \in Request :
        /\ status'[r] # "asked"
        /\ status[r] # "unused" => status'[r] # "unused"
  BY <1>1 DEF Types, Status, Pending
<1>4. /\ outbox' \in Seq(PacketOut) /\ inbox' \in Seq(PacketIn)
      /\ Packets(outbox') = {} /\ Packets(inbox') = {} /\ InOrder(Now, outbox') /\ InOrder(Now, inbox')
  BY <1>1, NoPackets, EmptySeq
<1>5. Types'
  BY <1>1, <1>3, <1>4 DEF Types
<1>6. \A a \in Agents, k \in Slot : call'[a][k].doing = "idle" /\ ~Busy(a, k)'
  BY <1>1 DEF Calls, Busy
<1>7. Asking' /\ \A n \in SeqNo : ~Pending(<<"ping", n>>)'
  BY <1>3, RequestNames DEF Asking, Pending
<1>8. ReqInv'
  BY <1>1, <1>3, <1>4, <1>5, <1>6, <1>7, Settles
<1> QED
  BY <1>1, <1>2, <1>8

(* What happens to the channels and the network. *)
LEMMA WorldStep ==
  ASSUME ReqInv, Forget \/ Stall \/ Remove \/ AddAgain \/ Expire
  PROVE  /\ ReqInv' /\ UNCHANGED <<banned, status, said>>
         /\ (made' = 1 => made = 1) /\ (remoteHas' => remoteHas) /\ (valid' => valid)
<1> USE DEF ReqInv
<1>1. /\ UNCHANGED <<seq, call, status, conn, banned, retries, said>>
      /\ \/ UNCHANGED <<outbox, inbox>>
         \/ outbox' = << >> /\ inbox' = << >>
  BY DEF Forget, Stall, Remove, AddAgain, Expire, table, peer
<1>2. /\ outbox' \in Seq(PacketOut) /\ inbox' \in Seq(PacketIn)
      /\ Packets(outbox') \subseteq Packets(outbox) /\ Packets(inbox') \subseteq Packets(inbox)
      /\ InOrder(Now, outbox') /\ InOrder(Now, inbox')
  BY <1>1, NoPackets, EmptySeq DEF Types, Ordered
<1>3. /\ made' \in DOMAIN Agent /\ (made' = 1 => made = 1)
      /\ present' \in BOOLEAN /\ remoteHas' \in BOOLEAN /\ valid' \in BOOLEAN /\ stalled' \in BOOLEAN
      /\ (remoteHas' => remoteHas) /\ (valid' => valid)
  <2>1. made \in 1..Len(Agent) /\ DOMAIN Agent = 1..Len(Agent) /\ Len(Agent) \in Nat
    BY Constants DEF Types
  <2>2. CASE AddAgain
    <3> DEFINE m == made
    <3>1. m \in 1..Len(Agent) /\ m < Len(Agent) /\ made' = m + 1
      BY <2>1, <2>2 DEF AddAgain
    <3>2. /\ present' = TRUE /\ UNCHANGED <<remoteHas, valid, stalled>>
      BY <2>2 DEF AddAgain
    <3> HIDE DEF m
    <3>3. m + 1 \in 1..Len(Agent) /\ m + 1 # 1
      BY <2>1, <3>1
    <3> QED
      BY <2>1, <3>1, <3>2, <3>3 DEF Types
  <2>3. CASE Forget \/ Stall \/ Remove \/ Expire
    <3>1. made' = made
      BY <2>3 DEF Forget, Stall, Remove, Expire
    <3>2. /\ present' \in BOOLEAN /\ remoteHas' \in BOOLEAN
          /\ valid' \in BOOLEAN /\ stalled' \in BOOLEAN
      BY <2>3 DEF Forget, Stall, Remove, Expire, Types
    <3>3. remoteHas' = remoteHas \/ remoteHas' = FALSE
      BY <2>3 DEF Forget, Stall, Remove, Expire
    <3>4. valid' = valid \/ valid' = FALSE
      BY <2>3 DEF Forget, Stall, Remove, Expire
    <3>5. (remoteHas' => remoteHas) /\ (valid' => valid)
      BY <3>3, <3>4
    <3> QED
      BY <3>1, <3>2, <3>5 DEF Types
  <2> QED
    BY <2>2, <2>3
<1>4. Types'
  BY <1>1, <1>2, <1>3 DEF Types
<1>5. ReqInv'
  BY <1>1, <1>2, <1>3, <1>4, TableKept DEF table
<1> QED
  BY <1>1, <1>3, <1>5

-----------------------------------------------------------------------------
(* Every step keeps the invariant, explains its ban, and is a step of Rpc *)

Explained ==
  /\ banned \in {"sequence", "box"} => made # 1
  /\ banned = "empty response" => made # 1 /\ ~remoteHas
  /\ banned = "no progress" => ~remoteHas \/ ~valid
  /\ banned # "type"

Good == ReqInv' /\ (Explained => Explained') /\ [Promise!Next]_(Promise!vars)

LEMMA FailStep ==
  ASSUME NEW R \in SUBSET {r \in Request : status[r] = "asked"},
         status' = [r \in Request |-> IF r \in R THEN "failed" ELSE status[r]], said' = said
  PROVE  Promise!Next
BY DEF Promise!Next, Promise!Fail

LEMMA StayGood ==
  ASSUME ReqInv', UNCHANGED <<banned, made, remoteHas, valid>>, [Promise!Next]_(Promise!vars)
  PROVE  Good
BY DEF Good, Explained

LEMMA AskGood ==
  ASSUME NEW r \in Request, status[r] # "asked", status' = [status EXCEPT ![r] = "asked"],
         said' = [said EXCEPT ![r] = "nothing"]
  PROVE  Promise!Next
BY DEF Promise!Next, Promise!Ask

LEMMA SendGood ==
  ASSUME ReqInv, \/ \E k \in Slot : Start(k)
                 \/ \E a \in Agents, k \in Slot : Continue(a, k)
  PROVE  Good
<1>1. PICK a \in Agents, k \in Slot, type \in {"query", "bulk"} :
        conn = "live" /\ ~Busy(a, k) /\ (made = 1 => a = Agent[1]) /\ Send(a, k, type)
  <2>1. CASE \E k \in Slot : Start(k)
    <3>1. PICK k \in Slot : Start(k)
      BY <2>1
    <3>2. Current = Agent[made] /\ Current \in Agents
      BY <3>1 DEF Start, Current, ReqInv, Types, Agents
    <3>3. ~Busy(Current, k)
      BY <3>1 DEF Start, Busy, Idle
    <3> QED
      BY <3>1, <3>2, <3>3 DEF Start
  <2>2. CASE \E a \in Agents, k \in Slot : Continue(a, k)
    <3>1. PICK a \in Agents, k \in Slot : Continue(a, k)
      BY <2>2
    <3>2. conn = "live" /\ call[a][k].doing = "page"
      BY <3>1 DEF Continue, Paged
    <3>3. PICK type \in {"query", "bulk"} : Send(a, k, type)
      BY <3>1 DEF Continue
    <3>4. ~Busy(a, k) /\ (made = 1 => a = Agent[1])
      BY <3>2 DEF Busy, ReqInv, Calls
    <3> QED
      BY <3>2, <3>3, <3>4
  <2> QED
    BY <2>1, <2>2
<1>2. ReqInv'
  BY <1>1, SendStep
<1>3. <<a, seq[a]>> \in Request
  BY TypedAt, RequestNames DEF ReqInv
<1>4. Promise!Next
  BY <1>1, <1>3, AskGood DEF Send
<1> QED
  BY <1>1, <1>2, <1>4, StayGood DEF Send, peer, world

LEMMA PingGood ==
  ASSUME ReqInv, SendPing PROVE Good
<1>1. UNCHANGED <<banned, made, remoteHas, valid>>
  BY DEF SendPing, peer, world
<1>2. Promise!Next
  BY SendPingStep, AskGood
<1> QED
  BY <1>1, <1>2, SendPingStep, StayGood

LEMMA ReplyGood ==
  ASSUME ReqInv, Reply PROVE Good
<1>1. UNCHANGED <<banned, made, remoteHas, valid>>
  BY DEF Reply, peer, world
<1>2. Promise!Say(Head(outbox).box)
  BY ReplyStep DEF Promise!Say
<1>3. Promise!Next
  BY <1>2, ReplyStep DEF Promise!Next
<1> QED
  BY <1>1, <1>3, ReplyStep, StayGood

LEMMA DestroyGood ==
  ASSUME ReqInv, NEW reason \in BanReason \cup {None}, Destroy(reason),
         UNCHANGED <<world, retries, said, outbox>>, inbox' = inbox \/ (inbox # << >> /\ inbox' = Tail(inbox)),
         seq' \in [Agents \cup {"ping"} -> SeqNo], seq'["ping"] = seq["ping"],
         /\ reason \in {"sequence", "box"} => made # 1
         /\ reason = "empty response" => made # 1 /\ ~remoteHas
         /\ reason = "no progress" => ~remoteHas \/ ~valid
         /\ reason # "type"
  PROVE  Good
<1>1. ReqInv'
  BY DestroyStep
<1>2. Explained'
  BY DEF Destroy, Explained, world
<1>3. Promise!Next
  <2> DEFINE R == {r \in Request : status[r] = "asked" /\ r[1] # "ping"}
  <2>1. status' = [r \in Request |-> IF r \in R THEN "failed" ELSE status[r]]
    BY DEF Destroy, Pending
  <2>2. R \in SUBSET {r \in Request : status[r] = "asked"}
    OBVIOUS
  <2> QED
    BY <2>1, <2>2, FailStep
<1> QED
  BY <1>1, <1>2, <1>3 DEF Good

LEMMA CallGood ==
  ASSUME ReqInv, NEW a \in Agents, NEW k \in Slot, Finish(a, k) \/ Unable(a, k) \/ Timeout(a, k)
  PROVE  Good
<1>1. seq \in [Agents \cup {"ping"} -> SeqNo] /\ a # "ping"
  BY Constants DEF ReqInv, Types
<1>2. CASE Finish(a, k)
  <2>1. /\ call[a][k] = Paged /\ call' = [call EXCEPT ![a][k] = Idle]
        /\ UNCHANGED <<world, peer, seq, status, said, outbox, inbox>>
    BY <1>2 DEF Finish
  <2>2. ~Busy(a, k)
    BY <2>1 DEF Busy, Paged
  <2>3. ReqInv'
    BY <1>1, <2>1, <2>2, FinishStep DEF Now
  <2> QED
    BY <2>1, <2>3, StayGood DEF world, peer, Promise!vars
<1>3. CASE Unable(a, k)
  <2>1. seq' \in [Agents \cup {"ping"} -> SeqNo] /\ seq'["ping"] = seq["ping"]
    BY <1>1, <1>3, NextSeqType DEF Unable
  <2>2. UNCHANGED <<world, said, outbox, inbox>> /\ ~valid /\ ~Busy(a, k)
    <3>1. UNCHANGED <<world, said, outbox, inbox>> /\ ~valid /\ call[a][k] = Paged
      BY <1>3 DEF Unable
    <3> QED
      BY <3>1 DEF Busy, Paged
  <2>3. CASE call' = [call EXCEPT ![a][k] = Idle] /\ UNCHANGED <<peer, status>>
    <3>1. ReqInv'
      BY <2>1, <2>2, <2>3, FinishStep DEF Now
    <3> QED
      BY <2>2, <2>3, <3>1, StayGood DEF world, peer, Promise!vars
  <2>4. CASE Destroy("no progress") /\ UNCHANGED retries
    BY <2>1, <2>2, <2>4, DestroyGood DEF BanReason
  <2> QED
    BY <1>3, <2>3, <2>4 DEF Unable
<1>4. CASE Timeout(a, k)
  <2>1. Destroy(None) /\ UNCHANGED <<world, seq, said, retries, outbox, inbox>>
    BY <1>4 DEF Timeout, SyncFails
  <2>2. None \notin BanReason
    BY Constants
  <2> QED
    BY <1>1, <2>1, <2>2, DestroyGood DEF BanReason
<1> QED
  BY <1>2, <1>3, <1>4

(* In its first life the channel's agent finds the request a response answers. *)
LEMMA FirstLife ==
  ASSUME ReqInv, inbox # << >>, Packet \in Packets(inbox), Packet.type # "ping", present,
         conn = "live", made = 1
  PROVE  Packet.box = <<Current, Packet.seq>> /\ Pending(Packet.box)
<1>1. Packet.box[1] \in Agents /\ Packet.box = <<Packet.box[1], Packet.seq>> /\ AgentPacket(Packet)
  BY PacketFits DEF Fits
<1> QED
  BY <1>1 DEF AgentPacket, Current

LEMMA BanGood ==
  ASSUME ReqInv, Receive, NEW reason \in BanReason, Ban(reason), UNCHANGED retries,
         conn = "live" =>
           /\ reason \in {"sequence", "box"} => made # 1
           /\ reason = "empty response" => made # 1 /\ ~remoteHas
           /\ reason = "no progress" => ~remoteHas \/ ~valid
           /\ reason # "type"
  PROVE  Good
<1>1. seq' \in [Agents \cup {"ping"} -> SeqNo] /\ UNCHANGED <<world, said, outbox, seq>>
      /\ UNCHANGED <<made, remoteHas, valid>> /\ inbox # << >> /\ inbox' = Tail(inbox)
  BY OnReceive DEF ReqInv, Types
<1>2. CASE conn = "live"
  BY <1>1, <1>2, DestroyGood DEF Ban
<1>3. CASE conn # "live"
  <2>1. UNCHANGED <<conn, banned, status, call>>
    BY <1>3 DEF Ban
  <2>2. ReqInv'
    BY <2>1, IgnoreStep
  <2> QED
    BY <1>1, <2>1, <2>2, StayGood DEF Promise!vars
<1> QED
  BY <1>2, <1>3

LEMMA EmptyGood ==
  ASSUME ReqInv, OnEmptyResponse PROVE Good
<1> DEFINE r == <<Current, Packet.seq>>
<1>1. /\ Receive /\ Packet.type = "empty" /\ present /\ UNCHANGED retries
      /\ IF ~Pending(r) THEN Ban("empty response")
         ELSE IF "bulk" \in Asked(r) THEN Destroy("no progress")
         ELSE Resolve(r, "empty", Idle) /\ UNCHANGED <<conn, banned>>
  BY DEF OnEmptyResponse
<1>2. Packet \in Packets(inbox) /\ ~remoteHas /\ said[Packet.box] = "empty" /\ Packet.box \in Request
      /\ inbox # << >>
  BY <1>1, OnReceive, PacketFits DEF ReqInv, Incoming
<1>3. CASE ~Pending(r)
  <2>1. conn = "live" => made # 1
    BY <1>1, <1>2, <1>3, FirstLife
  <2> QED
    BY <1>1, <1>2, <1>3, <2>1, BanGood DEF BanReason
<1>4. CASE Pending(r) /\ "bulk" \in Asked(r)
  <2>1. seq' \in [Agents \cup {"ping"} -> SeqNo] /\ UNCHANGED <<world, said, outbox, seq>> /\ inbox' = Tail(inbox)
    BY <1>1, OnReceive DEF ReqInv, Types
  <2> QED
    BY <1>1, <1>2, <1>4, <2>1, DestroyGood DEF BanReason
<1>5. CASE Pending(r) /\ "bulk" \notin Asked(r)
  <2>1. ReqInv' /\ r \in Request /\ status' = [status EXCEPT ![r] = "empty"]
    BY <1>1, <1>5, ResolveStep
  <2>2. UNCHANGED <<made, remoteHas, valid, said, banned>>
    BY <1>1, <1>5, OnReceive
  <2>3. Promise!AnswerEmpty(r)
    BY <1>2, <1>5, <2>1, <2>2 DEF Promise!AnswerEmpty, Pending
  <2>4. Promise!Next
    BY <2>1, <2>3 DEF Promise!Next
  <2> QED
    BY <2>1, <2>2, <2>4, StayGood
<1> QED
  BY <1>3, <1>4, <1>5

LEMMA SyncGood ==
  ASSUME ReqInv, OnSyncResponse PROVE Good
<1> DEFINE r == <<Current, Packet.seq>>
<1>1. /\ Receive /\ Packet.type \in {"query", "bulk"} /\ present /\ UNCHANGED retries
      /\ IF ~Pending(r) THEN Ban("sequence")
         ELSE IF Packet.box # r THEN Ban("box")
         ELSE IF Packet.type \notin Asked(r) THEN Ban("type")
         ELSE Resolve(r, "answered", Paged) /\ UNCHANGED <<conn, banned>>
  BY DEF OnSyncResponse
<1>2. Packet \in Packets(inbox) /\ said[Packet.box] = "data" /\ Packet.box \in Request
      /\ inbox # << >> /\ AgentPacket(Packet) /\ Packet.seq \in SeqNo
  BY <1>1, OnReceive, PacketFits DEF ReqInv, Incoming
<1>3. conn = "live" /\ made = 1 => Packet.box = r /\ Pending(r)
  BY <1>1, <1>2, FirstLife
<1>4. CASE ~Pending(r)
  BY <1>1, <1>3, <1>4, BanGood DEF BanReason
<1>5. CASE Pending(r) /\ Packet.box # r
  BY <1>1, <1>3, <1>5, BanGood DEF BanReason
<1>6. CASE Pending(r) /\ Packet.box = r
  <2>1. Current \in Agents
    BY <1>1 DEF Current, Agents, ReqInv, Types
  <2>2. PICK k \in Slot : Busy(Current, k) /\ call[Current][k].seq = Packet.seq
    BY <1>2, <1>6, <2>1 DEF ReqInv, Asking
  <2>3. Packet.type = call[Current][k].doing
    BY <1>1, <1>2, <1>6, <2>1, <2>2 DEF AgentPacket
  <2>4. Packet.type \in Asked(r)
    BY <2>2, <2>3 DEF Asked, Busy
  <2>5. ReqInv' /\ r \in Request /\ status' = [status EXCEPT ![r] = "answered"]
    BY <1>1, <1>6, <2>4, ResolveStep
  <2>6. UNCHANGED <<made, remoteHas, valid, said, banned>>
    BY <1>1, <1>6, <2>4, OnReceive
  <2>7. Promise!Answer(r)
    BY <1>2, <1>6, <2>5, <2>6 DEF Promise!Answer, Pending
  <2>8. Promise!Next
    BY <2>5, <2>7 DEF Promise!Next
  <2> QED
    BY <2>5, <2>6, <2>8, StayGood
<1> QED
  BY <1>4, <1>5, <1>6

LEMMA OtherGood ==
  ASSUME ReqInv,
         IgnoreResponse \/ OnPong \/ PingTimeout \/ Close \/ Forget \/ Stall \/ Remove \/ AddAgain \/ Expire
  PROVE  Good
<1>1. CASE IgnoreResponse
  <2>1. Receive /\ UNCHANGED <<conn, banned, retries, call, status>>
    BY <1>1 DEF IgnoreResponse, peer
  <2> QED
    BY <2>1, IgnoreStep, OnReceive, StayGood DEF Promise!vars
<1>2. CASE OnPong
  <2>1. [Promise!Next]_(Promise!vars)
    <3>1. CASE UNCHANGED status
      BY <1>2, <3>1, PongStep DEF Promise!vars
    <3>2. CASE ~UNCHANGED status
      <4>1. /\ <<"ping", Packet.seq>> \in Request /\ Promise!Answer(<<"ping", Packet.seq>>)
        BY <1>2, <3>2, PongStep DEF Promise!Answer, Pending
      <4> QED
        BY <4>1 DEF Promise!Next
    <3> QED
      BY <3>1, <3>2
  <2> QED
    BY <1>2, <2>1, PongStep, StayGood
<1>3. CASE PingTimeout
  BY <1>3, PingTimeoutStep, FailStep, StayGood DEF world
<1>4. CASE Close
  BY <1>4, CloseStep, FailStep, StayGood DEF world
<1>5. CASE Forget \/ Stall \/ Remove \/ AddAgain \/ Expire
  <2>1. /\ ReqInv' /\ UNCHANGED <<banned, status, said>>
        /\ (made' = 1 => made = 1) /\ (remoteHas' => remoteHas) /\ (valid' => valid)
    BY <1>5, WorldStep
  <2>2. /\ remoteHas \in BOOLEAN /\ valid \in BOOLEAN /\ remoteHas' \in BOOLEAN /\ valid' \in BOOLEAN
    BY <2>1 DEF ReqInv, Types
  <2> QED
    BY <2>1, <2>2 DEF Good, Explained, Promise!vars
<1> QED
  BY <1>1, <1>2, <1>3, <1>4, <1>5

LEMMA NextGood ==
  ASSUME ReqInv, [Next]_vars PROVE Good
<1>1. CASE UNCHANGED vars
  <2>1. ReqInv'
    BY <1>1 DEF vars, world, table, peer, ReqInv, Types, Calls, Asking, OnePing, Outgoing, Incoming,
         Travelling, Ordered, AgentPacket, PingPacket, Unanswered, Awaited, Pending, Busy, Now
  <2> QED
    BY <1>1, <2>1, StayGood DEF vars, world, table, peer, Promise!vars
<1>2. CASE Next
  BY <1>2, SendGood, PingGood, ReplyGood, CallGood, EmptyGood, SyncGood, OtherGood DEF Next, Progress
<1> QED
  BY <1>1, <1>2

-----------------------------------------------------------------------------
(* The theorems *)

\* The inductive invariant: whoever waits has an entry in the table and the other way round,
\* an answer finds its request and call in the channel's first life, no ping overtakes another.
THEOREM ReqInvHolds == Spec => []ReqInv
<1>1. ReqInv /\ [Next]_vars => ReqInv'
  BY NextGood DEF Good
<1> QED
  BY InitInv, <1>1, PTL DEF Spec

\* The types, and: a call waits if and only if its request is pending, and at most one ping is.
THEOREM TypesHold == Spec => []TypeOK
<1>1. ReqInv => TypeOK
  <2> SUFFICES ASSUME ReqInv PROVE TypeOK
    OBVIOUS
  <2> USE DEF ReqInv
  <2>1. ASSUME NEW a \in Agents, NEW k \in Slot
        PROVE  call[a][k].doing \in {"query", "bulk"} <=> \E n \in SeqNo :
                 call[a][k] \in {Waiting("query", n), Waiting("bulk", n)} /\ Pending(<<a, n>>)
    <3>1. call[a][k] \in [doing : Doing, seq : SeqNo]
      BY DEF Types
    <3>2. ASSUME Busy(a, k)
          PROVE  /\ call[a][k].seq \in SeqNo /\ Pending(<<a, call[a][k].seq>>)
                 /\ call[a][k] \in {Waiting("query", call[a][k].seq), Waiting("bulk", call[a][k].seq)}
      BY <3>1, <3>2 DEF Calls, Busy, Waiting
    <3>3. ASSUME NEW n \in SeqNo, call[a][k] \in {Waiting("query", n), Waiting("bulk", n)}
          PROVE  Busy(a, k)
      BY <3>3 DEF Busy, Waiting
    <3> QED
      BY <3>2, <3>3 DEF Busy
  <2>2. Cardinality(Awaited) <= 1
    <3>1. CASE Awaited = {}
      <4>1. Cardinality(Awaited) = 0
        BY <3>1, FS_EmptySet
      <4> QED
        BY <4>1
    <3>2. CASE Awaited # {}
      <4>1. PICK r : r \in Awaited
        BY <3>2
      <4>2. \A q \in Awaited : q = r
        <5> SUFFICES ASSUME NEW q \in Awaited PROVE q = r
          OBVIOUS
        <5>1. /\ q = <<"ping", q[2]>> /\ q[2] \in SeqNo /\ Pending(q)
              /\ r = <<"ping", r[2]>> /\ r[2] \in SeqNo /\ Pending(r)
          BY <4>1 DEF Awaited
        <5>2. Age(Now, q[2]) = Age(Now, r[2])
          BY <5>1 DEF OnePing
        <5> QED
          BY <5>1, <5>2, TypedAt, AgeUnique
      <4>3. Awaited = {r}
        BY <4>1, <4>2
      <4>4. Cardinality(Awaited) = 1
        BY <4>3, FS_Singleton
      <4> QED
        BY <4>4
    <3> QED
      BY <3>1, <3>2
  <2>3. {present, remoteHas, valid, stalled} \subseteq BOOLEAN
    BY DEF Types
  <2> QED
    BY <2>1, <2>2, <2>3 DEF Types, TypeOK
<1> QED
  BY ReqInvHolds, <1>1, PTL

\* An honest remote is banned only when the channel was removed and added again, when the remote
\* removed it, or when our own chain expired.
THEOREM BansExplained == Spec => []BanExplained
<1>1. Init => Explained
  BY Constants DEF Init, Explained, BanReason
<1>2. ReqInv /\ Explained /\ [Next]_vars => Explained'
  BY NextGood DEF Good
<1>3. ReqInv /\ Explained => BanExplained
  <2> DEFINE m == made
  <2>1. ReqInv => m \in 1..Len(Agent) /\ Len(Agent) \in Nat
    BY Constants DEF ReqInv, Types
  <2> HIDE DEF m
  <2>2. m \in 1..Len(Agent) /\ Len(Agent) \in Nat /\ m # 1 => m > 1
    OBVIOUS
  <2>3. ReqInv /\ made # 1 => made > 1
    BY <2>1, <2>2 DEF m
  <2> QED
    BY <2>3 DEF Explained, BanExplained
<1> QED
  BY ReqInvHolds, <1>1, <1>2, <1>3, PTL DEF Spec

\* The table, the numbers and the boxes implement Rpc: no response is taken for the answer to
\* another request, in particular no late pong and no response to an agent that is gone.
THEOREM Refines == Spec => ImplementsRpc
<1>1. Init => Promise!Init
  BY DEF Init, Promise!Init
<1>2. ReqInv /\ [Next]_vars => [Promise!Next]_(Promise!vars)
  BY NextGood DEF Good
<1> QED
  BY ReqInvHolds, <1>1, <1>2, PTL DEF Spec, ImplementsRpc, Promise!Spec

=============================================================================
